---------------------------- MODULE Spec2Model ----------------------------
(***************************************************************************)
(* A model of the chat-archive import backend: the preview/confirm upload  *)
(* flow and the legacy single-step upload (src/src/routes/upload.js), the  *)
(* chat merge (src/unnamed/part_000) and the per-transcript upload         *)
(* (src/unnamed/part_002).                                                 *)
(*                                                                         *)
(* Storage is MySQL (mysql2 pool, ER_DUP_ENTRY, INSERT IGNORE, the prefix  *)
(* index content(255)).  A transaction is modelled as one serial step; the *)
(* steps of a handler are cut at the awaits that touch the process-wide    *)
(* previews map and the staged bundle file.                                *)
(*                                                                         *)
(* Strings that the code trims or lower-cases are sequences of one-        *)
(* character strings, so that the conversions are computed, not assumed.   *)
(* A JavaScript-falsy name (null, undefined, '') is the empty sequence:    *)
(* every use in the code is a truthiness test or `|| default`.             *)
(***************************************************************************)
EXTENDS Integers, Sequences, FiniteSets, Bags, TLC

\* ------------------------------------------------------------------------
\* Strings

UpperChars == <<"A","B","C","D","E","F","G","H","I","J","K","L","M",
                "N","O","P","Q","R","S","T","U","V","W","X","Y","Z">>
LowerChars == <<"a","b","c","d","e","f","g","h","i","j","k","l","m",
                "n","o","p","q","r","s","t","u","v","w","x","y","z">>
Whitespace == {" ", "\t", "\n", "\r"}

LowerChar(c) ==
  IF \E i \in 1..Len(UpperChars) : UpperChars[i] = c
  THEN LowerChars[CHOOSE i \in 1..Len(UpperChars) : UpperChars[i] = c]
  ELSE c

\* String.prototype.toLowerCase
toLowerCase(s) == [i \in 1..Len(s) |-> LowerChar(s[i])]

RECURSIVE trimStart(_)
trimStart(s) ==
  IF s # <<>> /\ Head(s) \in Whitespace THEN trimStart(Tail(s)) ELSE s

RECURSIVE trimEnd(_)
trimEnd(s) ==
  IF s # <<>> /\ s[Len(s)] \in Whitespace
  THEN trimEnd(SubSeq(s, 1, Len(s) - 1)) ELSE s

\* String.prototype.trim
trim(s) == trimEnd(trimStart(s))

\* name.trim().toLowerCase(), the normal form both resolvers compare
NormName(s) == toLowerCase(trim(s))

\* ------------------------------------------------------------------------
\* Helpers of upload.js

Digits == {"0", "1", "2", "3", "4", "5", "6", "7", "8", "9"}

\* s.toString().toLowerCase().replace(/[^a-z0-9.\-\.]+/g, ''), '' for a falsy s
normalizeName(s) ==
  SelectSeq(toLowerCase(s),
            LAMBDA c : \/ \E i \in 1..Len(LowerChars) : LowerChars[i] = c
                       \/ c \in Digits \cup {".", "-"})

\* String.prototype.endsWith, String.prototype.includes
endsWith(s, t) == Len(t) <= Len(s) /\ SubSeq(s, Len(s) - Len(t) + 1, Len(s)) = t
includes(s, t) == \E i \in 1..(Len(s) - Len(t) + 1) : SubSeq(s, i, i + Len(t) - 1) = t

\* The key of the Media Index entry (filesMap, in insertion order) that the
\* per-row imports attach to a message naming rawName; <<>> if none:
\* the exact lower-cased basename, else the first entry that ends with it or
\* whose normal form equals, contains or is contained in its normal form
MediaHit(filesMap, rawName) ==
  LET exactKey == toLowerCase(rawName)
      targetNorm == normalizeName(rawName)
      Near(zipFilename) ==
        LET zipNorm == normalizeName(zipFilename)
        IN \/ endsWith(zipFilename, exactKey)
           \/ zipNorm = targetNorm
           \/ includes(zipNorm, targetNorm)
           \/ includes(targetNorm, zipNorm)
      near == {i \in 1..Len(filesMap) : Near(filesMap[i])}
  IN IF \E i \in 1..Len(filesMap) : filesMap[i] = exactKey THEN exactKey
     ELSE IF near # {} THEN filesMap[CHOOSE i \in near : \A j \in near : i <= j]
     ELSE <<>>

\* The messages as the per-row imports insert them: mediaPath is set when
\* the message names a file, an entry matches and saveBuffer succeeds (it
\* throws for the entries in failing, which is caught and logged)
SaveMedia(messages, filesMap, failing) ==
  [i \in 1..Len(messages) |->
     LET m == messages[i]
         hit == IF m.filename = <<>> THEN <<>> ELSE MediaHit(filesMap, m.filename)
     IN [m EXCEPT !.mediaPath = IF hit # <<>> /\ hit \notin failing THEN hit ELSE <<>>]]

\* The same for every transcript of a bundle
SaveMediaOfAll(txtFiles, filesMap, failing) ==
  [i \in 1..Len(txtFiles) |->
     [txtFiles[i] EXCEPT !.messages = SaveMedia(@, filesMap, failing)]]

\* filesMap.get(m.filename.toLowerCase()) of the batch imports: the entry
\* copied for m, <<>> if there is none
CopyHit(filesMap, m) ==
  IF m.filename # <<>> /\ \E i \in 1..Len(filesMap) : filesMap[i] = toLowerCase(m.filename)
  THEN toLowerCase(m.filename) ELSE <<>>

\* messagesWithMedia of the batch imports, every fs.copyFile succeeding
CopyMedia(messages, filesMap) ==
  [i \in 1..Len(messages) |-> [messages[i] EXCEPT !.mediaPath = CopyHit(filesMap, messages[i])]]

GENERIC_NAMES ==
  { <<"c","h","a","t">>,
    <<"w","h","a","t","s","a","p","p"," ","c","h","a","t">>,
    <<"g","r","o","u","p">>,
    <<"_","c","h","a","t">> }

isGenericName(name) ==
  IF name = <<>> THEN TRUE ELSE NormName(name) \in GENERIC_NAMES

Min(a, b) == IF a <= b THEN a ELSE b

\* A variant of participantOverlap that divides by the size of setA
participantOverlapOfFirst(setA, setB) ==
  IF setA = {} /\ setB = {} THEN [num |-> 1, den |-> 1]
  ELSE IF setA = {} \/ setB = {} THEN [num |-> 0, den |-> 1]
  ELSE [num |-> Cardinality({p \in setA : p \in setB}),
        den |-> Cardinality(setA)]

\* The ratio overlap / smaller as the pair [num, den]; 1 is [1,1], 0 is [0,1].
participantOverlap(setA, setB) ==
  IF setA = {} /\ setB = {} THEN [num |-> 1, den |-> 1]
  ELSE IF setA = {} \/ setB = {} THEN [num |-> 0, den |-> 1]
  ELSE [num |-> Cardinality({p \in setA : p \in setB}),
        den |-> Min(Cardinality(setA), Cardinality(setB))]

\* overlap >= 0.5, overlap > 0, and a > b on ratios
AtLeastHalf(o) == 2 * o.num >= o.den
Positive(o) == o.num > 0
RatioGt(a, b) == a.num * b.den > b.num * a.den

\* A variant that truncates: Math.floor(overlap * k)
RoundScaledDown(o, k) == (k * o.num) \div o.den

\* Math.round(overlap * k): the nearest integer, a half rounded up
RoundScaled(o, k) == (2 * k * o.num + o.den) \div (2 * o.den)

\* ------------------------------------------------------------------------
\* Rows.  chats: [id, user_id, name]; chat_participants: [chat_id, name];
\* messages: [chat_id, author, content, timestamp].

\* The first rows of `chats` in id order (a SELECT without ORDER BY reads the
\* primary key / user_id index, which is id order).
RECURSIVE SeqById(_)
SeqById(rows) ==
  IF rows = {} THEN <<>>
  ELSE LET c == CHOOSE x \in rows : \A y \in rows : x.id <= y.id
       IN <<c>> \o SeqById(rows \ {c})

\* A variant of ChatsOfUser: the SELECT without its user_id condition
ChatsOfAnyone(chatRows, userId) == SeqById(chatRows)

\* SELECT id, name FROM chats WHERE user_id = ?
ChatsOfUser(chatRows, userId) == SeqById({c \in chatRows : c.user_id = userId})

\* SELECT name FROM chat_participants WHERE chat_id = ?
PartsOfChat(partRows, chatId) == {r.name : r \in {x \in partRows : x.chat_id = chatId}}


\* ------------------------------------------------------------------------
\* Identity resolution

NoChatId == 0        \* null / undefined chat id (falsy)

\* A variant of MatchResult that scores the participant overlap before the
\* name
MatchResultOverlapFirst(c, partRows, nameGuess, participantsSet) ==
  LET overlap == participantOverlap(participantsSet, PartsOfChat(partRows, c.id))
      nameMatch == /\ nameGuess # <<>>
                   /\ c.name # <<>>
                   /\ NormName(nameGuess) = NormName(c.name)
  IN IF AtLeastHalf(overlap)
     THEN [id |-> c.id, matchScore |-> RoundScaled(overlap, 80),
           matchReason |-> "participant_overlap"]
     ELSE IF isGenericName(c.name) /\ Positive(overlap)
     THEN [id |-> c.id, matchScore |-> RoundScaled(overlap, 50),
           matchReason |-> "generic_name_with_overlap"]
     ELSE IF nameMatch
     THEN [id |-> c.id, matchScore |-> 100, matchReason |-> "exact_name_match"]
     ELSE [id |-> c.id, matchScore |-> 0, matchReason |-> "none"]

\* One entry of findMatchingSuggestions' results for chat c
MatchResult(c, partRows, nameGuess, participantsSet) ==
  LET overlap == participantOverlap(participantsSet, PartsOfChat(partRows, c.id))
      nameMatch == /\ nameGuess # <<>>
                   /\ c.name # <<>>
                   /\ NormName(nameGuess) = NormName(c.name)
  IN IF nameMatch
     THEN [id |-> c.id, matchScore |-> 100, matchReason |-> "exact_name_match"]
     ELSE IF AtLeastHalf(overlap)
     THEN [id |-> c.id, matchScore |-> RoundScaled(overlap, 80),
           matchReason |-> "participant_overlap"]
     ELSE IF isGenericName(c.name) /\ Positive(overlap)
     THEN [id |-> c.id, matchScore |-> RoundScaled(overlap, 50),
           matchReason |-> "generic_name_with_overlap"]
     ELSE [id |-> c.id, matchScore |-> 0, matchReason |-> "none"]

\* results.sort((a, b) => b.matchScore - a.matchScore): stable, descending
RECURSIVE InsertByScore(_, _)
InsertByScore(x, sorted) ==
  IF sorted = <<>> THEN <<x>>
  ELSE IF Head(sorted).matchScore >= x.matchScore
       THEN <<Head(sorted)>> \o InsertByScore(x, Tail(sorted))
       ELSE <<x>> \o sorted

RECURSIVE SortByScore(_)
SortByScore(results) ==
  IF results = <<>> THEN <<>>
  ELSE InsertByScore(results[Len(results)],
                     SortByScore(SubSeq(results, 1, Len(results) - 1)))

findMatchingSuggestions(chatRows, partRows, userId, nameGuess, participantsSet) ==
  LET chatSeq == ChatsOfUser(chatRows, userId)
      results == SortByScore([i \in 1..Len(chatSeq) |->
                    MatchResult(chatSeq[i], partRows, nameGuess, participantsSet)])
  IN [suggestedChatId |->
        IF Len(results) > 0 /\ results[1].matchScore > 0 THEN results[1].id ELSE NoChatId,
      existingChats |-> results]

\* The matchScore of the suggested chat (0 when none is suggested)
Confidence(sug) ==
  IF sug.suggestedChatId = NoChatId THEN 0 ELSE sug.existingChats[1].matchScore

\* Step 1 of autoFindOrCreateChat: the first chat whose name equals nameGuess
RECURSIVE FirstNameMatch(_, _)
FirstNameMatch(chatSeq, nameNorm) ==
  IF chatSeq = <<>> THEN NoChatId
  ELSE IF Head(chatSeq).name # <<>> /\ NormName(Head(chatSeq).name) = nameNorm
       THEN Head(chatSeq).id
       ELSE FirstNameMatch(Tail(chatSeq), nameNorm)

\* Step 2: the first chat with the strictly highest overlap >= 0.5
RECURSIVE BestOverlap(_, _, _, _, _)
BestOverlap(chatSeq, partRows, participantsSet, bestOverlap, foundId) ==
  IF chatSeq = <<>> THEN foundId
  ELSE LET overlap == participantOverlap(participantsSet,
                                         PartsOfChat(partRows, Head(chatSeq).id))
       IN IF AtLeastHalf(overlap) /\ RatioGt(overlap, bestOverlap)
          THEN BestOverlap(Tail(chatSeq), partRows, participantsSet, overlap, Head(chatSeq).id)
          ELSE BestOverlap(Tail(chatSeq), partRows, participantsSet, bestOverlap, foundId)

\* Step 3: the first generic-named chat with any overlap
RECURSIVE FirstGenericOverlap(_, _, _)
FirstGenericOverlap(chatSeq, partRows, participantsSet) ==
  IF chatSeq = <<>> THEN NoChatId
  ELSE IF /\ isGenericName(Head(chatSeq).name)
          /\ Positive(participantOverlap(participantsSet,
                                         PartsOfChat(partRows, Head(chatSeq).id)))
       THEN Head(chatSeq).id
       ELSE FirstGenericOverlap(Tail(chatSeq), partRows, participantsSet)

\* The name step: only for a present, non-generic nameGuess
NameStep(chatSeq, nameGuess) ==
  IF nameGuess # <<>> /\ ~isGenericName(nameGuess)
  THEN FirstNameMatch(chatSeq, NormName(nameGuess))
  ELSE NoChatId

\* The chat autoFindOrCreateChat merges into, NoChatId when it creates one
AutoFind(chatRows, partRows, userId, nameGuess, participantsSet) ==
  LET chatSeq == ChatsOfUser(chatRows, userId)
      s1 == NameStep(chatSeq, nameGuess)
      s2 == IF s1 # NoChatId THEN s1
            ELSE BestOverlap(chatSeq, partRows, participantsSet,
                             [num |-> 0, den |-> 1], NoChatId)
  IN IF s2 # NoChatId THEN s2
     ELSE FirstGenericOverlap(chatSeq, partRows, participantsSet)


\* ------------------------------------------------------------------------
\* Storage.  A database value is [chats, parts, msgs, nextId]: the rows of
\* chats and chat_participants (sets), the rows of messages (a bag: the
\* table has its own auto-increment id, so equal rows can coexist) and the
\* next AUTO_INCREMENT id of chats.

NoAuthor == ""        \* a parsed message without author (falsy)
NoTimestamp == 0      \* a parsed message without timestamp (falsy)
SqlNullAuthor == "NULL"
SqlNullTime == -1

NoFilename == <<>>    \* a parsed message without attachment (falsy)
NoMedia == <<>>       \* media_path NULL

\* m.author || null, m.timestamp || null
AuthorOrNull(a) == IF a = NoAuthor THEN SqlNullAuthor ELSE a
TimestampOrNull(t) == IF t = NoTimestamp THEN SqlNullTime ELSE t

\* The row an import binds for parsed message m.  content is [p, r]: its
\* first 255 characters and the rest; a falsy content is ['', ''] already.
\* mediaPath is the Media Index key of the saved file (the code stores
\* publicPath(userId, chatId, safeName(key))) or NoMedia.
MessageRow(chatId, m) ==
  [chat_id |-> chatId, author |-> AuthorOrNull(m.author),
   content |-> m.content, timestamp |-> TimestampOrNull(m.timestamp),
   media_path |-> m.mediaPath]

\* A parsed message (parseWhatsAppText): plain, or naming an attached file
Attachment(author, content, timestamp, filename) ==
  [author |-> author, content |-> content, timestamp |-> timestamp,
   filename |-> filename, mediaPath |-> NoMedia]
Text(author, content, timestamp) == Attachment(author, content, timestamp, NoFilename)

\* UNIQUE KEY (chat_id, author, timestamp, content(255))
UniqueKey(row) == <<row.chat_id, row.author, row.timestamp, row.content.p>>

\* ER_DUP_ENTRY: MySQL compares NULL as distinct from every value in a
\* unique index, so a row with a NULL key column never conflicts.
DupEntry(msgs, row) ==
  /\ row.author # SqlNullAuthor
  /\ row.timestamp # SqlNullTime
  /\ \E r \in BagToSet(msgs) : UniqueKey(r) = UniqueKey(row)

Max(S) == CHOOSE x \in S : \A y \in S : y <= x

\* SELECT MAX(timestamp) FROM messages WHERE chat_id = ?  (NULLs are ignored)
MaxTimestamp(msgs, chatId) ==
  LET ts == {r.timestamp : r \in {x \in BagToSet(msgs) :
                 x.chat_id = chatId /\ x.timestamp # SqlNullTime}}
  IN IF ts = {} THEN SqlNullTime ELSE Max(ts)

\* A variant of the filter that lets a message at the cutoff through
NewMessagesInclusive(parsedMessages, lastMessageTime) ==
  LET keep(m) == \/ m.timestamp = NoTimestamp
                 \/ lastMessageTime = SqlNullTime
                 \/ m.timestamp >= lastMessageTime
  IN SelectSeq(parsedMessages, keep)

\* parsed.messages.filter(...): the messages after the cutoff
NewMessages(parsedMessages, lastMessageTime) ==
  LET keep(m) == \/ m.timestamp = NoTimestamp
                 \/ lastMessageTime = SqlNullTime
                 \/ m.timestamp > lastMessageTime
  IN SelectSeq(parsedMessages, keep)

\* The insert loop: one INSERT per message, ER_DUP_ENTRY counted as skipped
RECURSIVE InsertLoop(_, _, _, _, _)
InsertLoop(msgs, chatId, newMessages, added, skipped) ==
  IF newMessages = <<>>
  THEN [msgs |-> msgs, added |-> added, skipped |-> skipped]
  ELSE LET row == MessageRow(chatId, Head(newMessages))
       IN IF DupEntry(msgs, row)
          THEN InsertLoop(msgs, chatId, Tail(newMessages), added, skipped + 1)
          ELSE InsertLoop(msgs (+) SetToBag({row}), chatId, Tail(newMessages),
                          added + 1, skipped)

\* Cutoff, filter, insert loop and the count of the filtered-out messages
ImportMessages(msgs, chatId, created, parsedMessages) ==
  LET lastMessageTime == IF created THEN SqlNullTime ELSE MaxTimestamp(msgs, chatId)
      newMessages == NewMessages(parsedMessages, lastMessageTime)
      r == InsertLoop(msgs, chatId, newMessages, 0, 0)
  IN [msgs |-> r.msgs, added |-> r.added,
      skipped |-> r.skipped + (Len(parsedMessages) - Len(newMessages))]

ZeroStats == [addedChats |-> 0, updatedChats |-> 0, addedMessages |-> 0, skippedMessages |-> 0]

\* nameGuess || 'Chat'
DefaultChatName == <<"C","h","a","t">>
NameOrDefault(nameGuess) == IF nameGuess = <<>> THEN DefaultChatName ELSE nameGuess

\* INSERT INTO chats, then one INSERT INTO chat_participants per participant
CreateChat(db, userId, nameGuess, participantsSet) ==
  [db EXCEPT !.chats = @ \cup {[id |-> db.nextId, user_id |-> userId,
                                name |-> NameOrDefault(nameGuess)]},
             !.parts = @ \cup {[chat_id |-> db.nextId, name |-> p] : p \in participantsSet},
             !.nextId = @ + 1]

\* UPDATE chats SET name = ? WHERE id = ?
SetChatName(chatRows, chatId, name) ==
  {IF c.id = chatId THEN [c EXCEPT !.name = name] ELSE c : c \in chatRows}

\* A variant of SyncParticipants that stores the transcript's participants in
\* place of the chat's
SyncParticipantsReplacing(partRows, chatId, participantsSet) ==
  {r \in partRows : r.chat_id # chatId}
    \cup {[chat_id |-> chatId, name |-> p] : p \in participantsSet}

\* INSERT IGNORE INTO chat_participants for every participant not yet stored
SyncParticipants(partRows, chatId, participantsSet) ==
  partRows \cup {[chat_id |-> chatId, name |-> p] : p \in participantsSet}

\* A variant of OwnedChat that leaves out "AND user_id = ?"
OwnedChatOfAnyone(chatRows, chatId, userId) ==
  {c \in chatRows : c.id = chatId}

\* SELECT id, name FROM chats WHERE id = ? AND user_id = ?
OwnedChat(chatRows, chatId, userId) ==
  {c \in chatRows : c.id = chatId /\ c.user_id = userId}

\* The confirm handler's "merge into existing chat" branch, after the check
MergeIntoTarget(db, chatId, existingName, nameGuess, participantsSet) ==
  LET rename == /\ nameGuess # <<>>
                /\ ~isGenericName(nameGuess)
                /\ (isGenericName(existingName) \/ existingName # nameGuess)
  IN [db EXCEPT !.chats = IF rename THEN SetChatName(@, chatId, nameGuess) ELSE @,
                !.parts = SyncParticipants(@, chatId, participantsSet)]

\* A variant of the confirm transaction that, given no target, resolves the
\* chat as the single-step upload does and merges into the chat it finds
RECURSIVE ConfirmLoopResolving(_, _, _, _)
ConfirmLoopResolving(acc, userId, targetChatId, txtFiles) ==
  IF txtFiles = <<>> \/ acc.status # 200 THEN acc
  ELSE
    LET parsed == Head(txtFiles)
        db == acc.db
        chosen == IF targetChatId # NoChatId THEN targetChatId
                  ELSE AutoFind(db.chats, db.parts, userId, parsed.nameGuess,
                                parsed.participants)
    IN IF chosen # NoChatId
       THEN LET rows == OwnedChat(db.chats, chosen, userId)
            IN IF rows = {}
               THEN [acc EXCEPT !.status = 404]
               ELSE LET existingName == (CHOOSE c \in rows : TRUE).name
                        db1 == MergeIntoTarget(db, chosen, existingName,
                                               parsed.nameGuess, parsed.participants)
                        im == ImportMessages(db1.msgs, chosen, FALSE, parsed.messages)
                    IN ConfirmLoopResolving(
                         [status |-> 200,
                          db |-> [db1 EXCEPT !.msgs = im.msgs],
                          stats |-> [acc.stats EXCEPT !.updatedChats = @ + 1,
                                                      !.addedMessages = @ + im.added,
                                                      !.skippedMessages = @ + im.skipped],
                          into |-> acc.into \cup {<<parsed.path, chosen>>}],
                         userId, targetChatId, Tail(txtFiles))
       ELSE LET chatId == db.nextId
                db1 == CreateChat(db, userId, parsed.nameGuess, parsed.participants)
                im == ImportMessages(db1.msgs, chatId, TRUE, parsed.messages)
            IN ConfirmLoopResolving(
                 [status |-> 200,
                  db |-> [db1 EXCEPT !.msgs = im.msgs],
                  stats |-> [acc.stats EXCEPT !.addedChats = @ + 1,
                                              !.addedMessages = @ + im.added,
                                              !.skippedMessages = @ + im.skipped],
                  into |-> acc.into \cup {<<parsed.path, chatId>>}],
                 userId, targetChatId, Tail(txtFiles))

\* The body of the confirm transaction: for (const ... of txtFiles) { ... }.
\* acc is [status, db, stats, into]; into collects <<transcript path, chat id>>.
\* status 404 is the "Chat not found" rollback, 200 the commit.
RECURSIVE ConfirmLoop(_, _, _, _)
ConfirmLoop(acc, userId, targetChatId, txtFiles) ==
  IF txtFiles = <<>> \/ acc.status # 200 THEN acc
  ELSE
    LET parsed == Head(txtFiles)
        db == acc.db
    IN IF targetChatId # NoChatId
       THEN LET rows == OwnedChat(db.chats, targetChatId, userId)
            IN IF rows = {}
               THEN [acc EXCEPT !.status = 404]
               ELSE LET existingName == (CHOOSE c \in rows : TRUE).name
                        db1 == MergeIntoTarget(db, targetChatId, existingName,
                                               parsed.nameGuess, parsed.participants)
                        im == ImportMessages(db1.msgs, targetChatId, FALSE, parsed.messages)
                    IN ConfirmLoop(
                         [status |-> 200,
                          db |-> [db1 EXCEPT !.msgs = im.msgs],
                          stats |-> [acc.stats EXCEPT !.updatedChats = @ + 1,
                                                      !.addedMessages = @ + im.added,
                                                      !.skippedMessages = @ + im.skipped],
                          into |-> acc.into \cup {<<parsed.path, targetChatId>>}],
                         userId, targetChatId, Tail(txtFiles))
       ELSE LET chatId == db.nextId
                db1 == CreateChat(db, userId, parsed.nameGuess, parsed.participants)
                im == ImportMessages(db1.msgs, chatId, TRUE, parsed.messages)
            IN ConfirmLoop(
                 [status |-> 200,
                  db |-> [db1 EXCEPT !.msgs = im.msgs],
                  stats |-> [acc.stats EXCEPT !.addedChats = @ + 1,
                                              !.addedMessages = @ + im.added,
                                              !.skippedMessages = @ + im.skipped],
                  into |-> acc.into \cup {<<parsed.path, chatId>>}],
                 userId, targetChatId, Tail(txtFiles))

\* beginTransaction ... commit / rollback of the confirm handler.  A rolled
\* back transaction leaves the database as it was.
ConfirmTransaction(db, userId, targetChatId, txtFiles) ==
  LET r == ConfirmLoop([status |-> 200, db |-> db, stats |-> ZeroStats, into |-> {}],
                       userId, targetChatId, txtFiles)
  IN IF r.status = 200 THEN r
     ELSE [status |-> r.status, db |-> db, stats |-> ZeroStats, into |-> {}]


\* autoFindOrCreateChat: [db, chatId, created]
autoFindOrCreateChat(db, userId, nameGuess, participantsSet) ==
  LET foundId == AutoFind(db.chats, db.parts, userId, nameGuess, participantsSet)
  IN IF foundId # NoChatId
     THEN LET existing == CHOOSE c \in db.chats : c.id = foundId
              rename == /\ nameGuess # <<>>
                        /\ ~isGenericName(nameGuess)
                        /\ existing.name # nameGuess
          IN [db |-> [db EXCEPT
                        !.chats = IF rename THEN SetChatName(@, foundId, nameGuess) ELSE @,
                        !.parts = SyncParticipants(@, foundId, participantsSet)],
              chatId |-> foundId, created |-> FALSE]
     ELSE [db |-> CreateChat(db, userId, nameGuess, participantsSet),
           chatId |-> db.nextId, created |-> TRUE]

\* The rest of one iteration of the loop below: the insert loop on the chat f
\* that autoFindOrCreateChat returned, and the counts
UploadCounted(acc, parsed, f, im) ==
  [status |-> 200,
   db |-> [f.db EXCEPT !.msgs = im.msgs],
   stats |-> [acc.stats EXCEPT
                !.addedChats = IF f.created THEN @ + 1 ELSE @,
                !.updatedChats = IF f.created THEN @ ELSE @ + 1,
                !.addedMessages = @ + im.added,
                !.skippedMessages = @ + im.skipped],
   into |-> acc.into \cup {<<parsed.path, f.chatId>>}]

UploadInto(acc, parsed, f) ==
  UploadCounted(acc, parsed, f,
                ImportMessages(f.db.msgs, f.chatId, f.created, parsed.messages))

\* The body of the legacy upload transaction
RECURSIVE UploadLoop(_, _, _)
UploadLoop(acc, userId, txtFiles) ==
  IF txtFiles = <<>> THEN acc
  ELSE UploadLoop(
         UploadInto(acc, Head(txtFiles),
                    autoFindOrCreateChat(acc.db, userId, Head(txtFiles).nameGuess,
                                         Head(txtFiles).participants)),
         userId, Tail(txtFiles))

UploadTransaction(db, userId, txtFiles) ==
  UploadLoop([status |-> 200, db |-> db, stats |-> ZeroStats, into |-> {}],
             userId, txtFiles)

\* ------------------------------------------------------------------------
\* The per-transcript upload (processUpload): findOrCreateChatForUser and
\* batchInsertMessages, one transaction per transcript.

\* The chat whose participant set equals the transcript's (the code compares
\* the sorted names joined by '|'; no modelled name contains '|').
RECURSIVE FirstSameParticipants(_, _, _)
FirstSameParticipants(chatSeq, partRows, participantsSet) ==
  IF chatSeq = <<>> THEN NoChatId
  ELSE IF PartsOfChat(partRows, Head(chatSeq).id) = participantsSet
       THEN Head(chatSeq).id
       ELSE FirstSameParticipants(Tail(chatSeq), partRows, participantsSet)

findOrCreateChatForUser(db, userId, nameGuess, participantsSet) ==
  LET foundId == FirstSameParticipants(ChatsOfUser(db.chats, userId), db.parts,
                                       participantsSet)
  IN IF foundId # NoChatId
     THEN [db |-> db, chatId |-> foundId, created |-> FALSE]
     ELSE [db |-> CreateChat(db, userId, nameGuess, participantsSet),
           chatId |-> db.nextId, created |-> TRUE]

\* INSERT IGNORE of a batch: a row that conflicts is dropped without error,
\* affectedRows counts the rows stored, skipped stays 0.
RECURSIVE batchInsertMessages(_, _, _, _)
batchInsertMessages(msgs, chatId, messages, inserted) ==
  IF messages = <<>> THEN [msgs |-> msgs, inserted |-> inserted, skipped |-> 0]
  ELSE LET row == MessageRow(chatId, Head(messages))
       IN IF DupEntry(msgs, row)
          THEN batchInsertMessages(msgs, chatId, Tail(messages), inserted)
          ELSE batchInsertMessages(msgs (+) SetToBag({row}), chatId, Tail(messages),
                                   inserted + 1)

\* The batch statement throws and the catch inserts the rows one by one:
\* a row whose INSERT throws ER_DUP_ENTRY counts as skipped, a row whose INSERT
\* throws anything else (the rows at the positions in failing) is logged and
\* left out; dropped counts these rows.
RECURSIVE batchInsertFallback(_, _, _, _, _)
batchInsertFallback(msgs, chatId, messages, failing, i) ==
  IF i > Len(messages) THEN [msgs |-> msgs, inserted |-> 0, skipped |-> 0, dropped |-> 0]
  ELSE LET row == MessageRow(chatId, messages[i])
           thrown == i \in failing
           dup == ~thrown /\ DupEntry(msgs, row)
           stored == IF thrown \/ dup THEN msgs ELSE msgs (+) SetToBag({row})
           rest == batchInsertFallback(stored, chatId, messages, failing, i + 1)
       IN [msgs |-> rest.msgs,
           inserted |-> rest.inserted + (IF thrown \/ dup THEN 0 ELSE 1),
           skipped |-> rest.skipped + (IF dup THEN 1 ELSE 0),
           dropped |-> rest.dropped + (IF thrown THEN 1 ELSE 0)]

\* newMessages of one iteration of processUpload's loop
ProcessNewMessages(db, userId, parsed) ==
  LET f == findOrCreateChatForUser(db, userId, parsed.nameGuess, parsed.participants)
      lastMessageTime == IF f.created THEN SqlNullTime
                         ELSE MaxTimestamp(f.db.msgs, f.chatId)
  IN NewMessages(parsed.messages, lastMessageTime)

\* One iteration of processUpload's loop, committed: [db, stats, into]
ProcessTranscript(db, stats, userId, parsed) ==
  LET f == findOrCreateChatForUser(db, userId, parsed.nameGuess, parsed.participants)
      newMessages == ProcessNewMessages(db, userId, parsed)
      b == batchInsertMessages(f.db.msgs, f.chatId, newMessages, 0)
  IN [db |-> [f.db EXCEPT !.msgs = b.msgs],
      stats |-> [stats EXCEPT
                   !.addedChats = IF f.created THEN @ + 1 ELSE @,
                   !.updatedChats = IF f.created THEN @ ELSE @ + 1,
                   !.addedMessages = @ + b.inserted,
                   !.skippedMessages = @ + b.skipped
                                         + (Len(parsed.messages) - Len(newMessages))],
      into |-> <<parsed.path, f.chatId>>]

\* ------------------------------------------------------------------------
\* Chat merge (POST /chats/merge)

\* chatMsgCounts.sort((a, b) => b.count - a.count)[0].id: the first id, in
\* the order supplied, with the greatest message count
CountIn(msgs, chatId) ==
  BagCardinality([r \in {x \in BagToSet(msgs) : x.chat_id = chatId} |-> CopiesIn(r, msgs)])

\* A variant of MergeTarget that takes the last of the chats with the most
\* messages
MergeTargetLastOnTies(msgs, chatIds) ==
  LET best == CHOOSE i \in 1..Len(chatIds) :
                /\ \A j \in 1..Len(chatIds) :
                     CountIn(msgs, chatIds[j]) <= CountIn(msgs, chatIds[i])
                /\ \A j \in (i + 1)..Len(chatIds) :
                     CountIn(msgs, chatIds[j]) < CountIn(msgs, chatIds[i])
  IN chatIds[best]

MergeTarget(msgs, chatIds) ==
  LET best == CHOOSE i \in 1..Len(chatIds) :
                /\ \A j \in 1..Len(chatIds) :
                     CountIn(msgs, chatIds[j]) <= CountIn(msgs, chatIds[i])
                /\ \A j \in 1..(i - 1) :
                     CountIn(msgs, chatIds[j]) < CountIn(msgs, chatIds[i])
  IN chatIds[best]

\* genericNames of the merge handler: the four placeholders and ''
MergeGeneric(name) == name = <<>> \/ NormName(name) \in (GENERIC_NAMES \cup {<<>>})

\* The first non-generic name among ownedChats (rows in id order)
RECURSIVE BestName(_)
BestName(ownedSeq) ==
  IF ownedSeq = <<>> THEN <<>>
  ELSE IF ~MergeGeneric(Head(ownedSeq).name) THEN Head(ownedSeq).name
       ELSE BestName(Tail(ownedSeq))

\* The message move of one source chat: one INSERT per row (every copy of a
\* row); ER_DUP_ENTRY counts as skippedDuplicates, an inserted row as
\* movedMessages.  acc is [msgs, moved, skipped].
RECURSIVE MoveRows(_, _, _)
MoveRows(acc, rows, targetId) ==
  IF rows = <<>> THEN acc
  ELSE LET row == [Head(rows) EXCEPT !.chat_id = targetId]
       IN MoveRows(IF DupEntry(acc.msgs, row)
                   THEN [acc EXCEPT !.skipped = @ + 1]
                   ELSE [acc EXCEPT !.msgs = @ (+) SetToBag({row}), !.moved = @ + 1],
                   Tail(rows), targetId)

RECURSIVE BagAsSeq(_)
BagAsSeq(b) ==
  IF BagToSet(b) = {} THEN <<>>
  ELSE LET r == CHOOSE x \in BagToSet(b) : TRUE
       IN <<r>> \o BagAsSeq(b (-) SetToBag({r}))

RowsOfChat(msgs, chatId) ==
  LET S == {x \in BagToSet(msgs) : x.chat_id = chatId}
  IN [r \in S |-> CopiesIn(r, msgs)]

\* DELETE FROM chats WHERE id = ? with ON DELETE CASCADE
DeleteChatCascade(db, chatId) ==
  [db EXCEPT !.chats = {c \in @ : c.id # chatId},
             !.parts = {r \in @ : r.chat_id # chatId},
             !.msgs = @ (-) RowsOfChat(@, chatId)]

\* deleteChatsByIdsForUser of db.js, which the routes import: the chats of
\* userId among ids are deleted, with their rows; [db, affectedRows]
deleteChatsByIdsForUser(db, userId, ids) ==
  LET own == {c.id : c \in {x \in db.chats : x.user_id = userId}}
      gone == own \cap {ids[i] : i \in DOMAIN ids}
      RECURSIVE Del(_, _)
      Del(d, S) == IF S = {} THEN d
                   ELSE LET id == CHOOSE x \in S : TRUE
                        IN Del(DeleteChatCascade(d, id), S \ {id})
  IN [db |-> Del(db, gone), affectedRows |-> Cardinality(gone)]

\* Variant of MergeSources: the source chats are deleted, their rows are not
\* re-inserted
MergeSourcesDeleteOnly(acc, sourceIds, targetId) ==
  LET RECURSIVE Del(_, _)
      Del(db, ids) == IF ids = <<>> THEN db
                      ELSE Del(DeleteChatCascade(db, Head(ids)), Tail(ids))
  IN [acc EXCEPT !.db = Del(acc.db, sourceIds)]

\* for (const srcId of sourceIds): move the rows, then delete the source.
\* acc is [db, moved, skipped].
RECURSIVE MergeSources(_, _, _)
MergeSources(acc, sourceIds, targetId) ==
  IF sourceIds = <<>> THEN acc
  ELSE LET srcId == Head(sourceIds)
           mv == MoveRows([msgs |-> acc.db.msgs, moved |-> acc.moved,
                           skipped |-> acc.skipped],
                          BagAsSeq(RowsOfChat(acc.db.msgs, srcId)), targetId)
       IN MergeSources([db |-> DeleteChatCascade([acc.db EXCEPT !.msgs = mv.msgs], srcId),
                        moved |-> mv.moved, skipped |-> mv.skipped],
                       Tail(sourceIds), targetId)

\* Variant of OwnedAmong: the SELECT without its user_id condition
OwnedAmongAnyone(chatRows, userId, chatIds) ==
  SeqById({c \in chatRows : \E i \in 1..Len(chatIds) : chatIds[i] = c.id})

\* SELECT id, name FROM chats WHERE user_id = ? AND id IN (chatIds)
OwnedAmong(chatRows, userId, chatIds) ==
  SeqById({c \in chatRows :
             c.user_id = userId /\ \E i \in 1..Len(chatIds) : chatIds[i] = c.id})

\* The merge transaction up to its commit:
\* [status, db, targetId, movedMessages, skippedDuplicates, deletedChats]
MergeTransaction(db, userId, chatIds) ==
  LET ownedChats == OwnedAmong(db.chats, userId, chatIds)
  IN IF Len(ownedChats) # Len(chatIds)
     THEN [status |-> 404, db |-> db, targetId |-> NoChatId, movedMessages |-> 0,
           skippedDuplicates |-> 0, deletedChats |-> <<>>]
     ELSE LET targetId == MergeTarget(db.msgs, chatIds)
              sourceIds == SelectSeq(chatIds, LAMBDA id : id # targetId)
              bestName == BestName(ownedChats)
              db1 == [db EXCEPT
                        !.chats = IF bestName # <<>>
                                  THEN SetChatName(@, targetId, bestName) ELSE @,
                        !.parts = @ \cup {[chat_id |-> targetId, name |-> r.name] :
                                      r \in {x \in @ : \E i \in 1..Len(sourceIds) :
                                                          sourceIds[i] = x.chat_id}}]
              done == MergeSources([db |-> db1, moved |-> 0, skipped |-> 0],
                                   sourceIds, targetId)
          IN [status |-> 200, db |-> done.db, targetId |-> targetId,
              movedMessages |-> done.moved, skippedDuplicates |-> done.skipped,
              deletedChats |-> sourceIds]


\* [...new Set(req.body.chatIds.map(Number).filter(Boolean))]
RECURSIVE MergeIds(_)
MergeIds(raw) ==
  IF raw = <<>> THEN <<>>
  ELSE LET rest == MergeIds(SubSeq(raw, 1, Len(raw) - 1))
           x == raw[Len(raw)]
       IN IF x = NoChatId \/ \E i \in 1..Len(rest) : rest[i] = x
          THEN rest ELSE Append(rest, x)

\* ------------------------------------------------------------------------
\* Extraction of a bundle.  An archive is the sequence of its entries
\* [name, dir]; failing is the set of names of the media entries whose
\* decoding or writing fails.  An extraction returns [ok, txtFiles, filesMap]:
\* the paths of the .txt entries and the keys of the Media Index in insertion
\* order, or ok = FALSE when it throws.

\* lower.split('/').pop()
Basename(name) ==
  LET slashes == {i \in 1..Len(name) : name[i] = "/"}
  IN IF slashes = {} THEN name ELSE SubSeq(name, Max(slashes) + 1, Len(name))

\* lower.endsWith('.txt')
IsTxtEntry(entry) == endsWith(toLowerCase(entry.name), <<".", "t", "x", "t">>)

\* Map.prototype.set on the keys: a key that is there keeps its place
MapSet(keys, k) == IF \E i \in 1..Len(keys) : keys[i] = k THEN keys ELSE Append(keys, k)

Thrown == [ok |-> FALSE, txtFiles |-> <<>>, filesMap |-> <<>>]

\* extractZipMeta of utils/zip.js: the media entry is decoded inside
\* try/catch, a failure is logged and the entry left out
RECURSIVE extractZipMeta(_, _, _)
extractZipMeta(acc, entries, failing) ==
  IF entries = <<>> THEN acc
  ELSE LET entry == Head(entries)
           next == IF entry.dir THEN acc
                   ELSE IF IsTxtEntry(entry)
                        THEN [acc EXCEPT !.txtFiles = Append(@, entry.name)]
                        ELSE IF entry.name \in failing THEN acc
                             ELSE [acc EXCEPT !.filesMap =
                                     MapSet(@, Basename(toLowerCase(entry.name)))]
       IN extractZipMeta(next, Tail(entries), failing)

\* processZipEfficiently: entry by entry, the media entry piped to a file
\* without a catch; a failure rejects the awaited promise (the extraction
\* throws) or is an unhandled stream error: nothing is returned
RECURSIVE processZipEfficiently(_, _, _)
processZipEfficiently(acc, entries, failing) ==
  IF entries = <<>> THEN acc
  ELSE LET entry == Head(entries)
       IN IF entry.dir THEN processZipEfficiently(acc, Tail(entries), failing)
          ELSE IF IsTxtEntry(entry)
               THEN processZipEfficiently([acc EXCEPT !.txtFiles = Append(@, entry.name)],
                                          Tail(entries), failing)
               ELSE IF entry.name \in failing THEN Thrown
                    ELSE processZipEfficiently(
                           [acc EXCEPT !.filesMap = MapSet(@, toLowerCase(entry.name))],
                           Tail(entries), failing)

\* processZipStreamChunked: the entries of a batch are handled concurrently
\* under Promise.all, the media entry written without a catch; a failure
\* rejects the batch and the extraction throws.  The .txt entries of a batch
\* are pushed as their decoding completes: txtOrder is that order.
processZipStreamChunked(entries, failing, txtOrder) ==
  LET media == SelectSeq(entries, LAMBDA e : ~e.dir /\ ~IsTxtEntry(e))
      RECURSIVE Keys(_, _)
      Keys(keys, rest) == IF rest = <<>> THEN keys
                          ELSE Keys(MapSet(keys, toLowerCase(Head(rest).name)), Tail(rest))
  IN IF \E i \in 1..Len(media) : media[i].name \in failing THEN Thrown
     ELSE [ok |-> TRUE, txtFiles |-> txtOrder, filesMap |-> Keys(<<>>, media)]

\* ------------------------------------------------------------------------
\* Bounds and inputs

MaxChats == 2         \* chats the imports may create (AUTO_INCREMENT ids 1..MaxChats)
MaxCopies == 2        \* copies of one equal row in messages
MaxTime == 2          \* clock ticks
MaxInFlight == 2      \* confirm requests in flight at once

\* One clock tick is 15 minutes: PREVIEW_TTL_MS = 15 * 60 * 1000
PREVIEW_TTL_MS == 1

Users == {"u1", "u2"}

Fam == <<"F","a","m">>
FamLoose == <<" ","f","A","M"," ">>
Work == <<"W","o","r","k">>
GenericChat == <<"c","h","a","t">>

Hi == [p |-> "hi", r |-> ""]
Joined == [p |-> "joined", r |-> ""]
Yo == [p |-> "yo", r |-> ""]
More == [p |-> "more", r |-> ""]

\* Parsed transcripts (parseWhatsAppText is outside the model: its results
\* are inputs).  fam.txt has an author-less message, b.txt a message without
\* timestamp.
TFam ==
  [path |-> "fam.txt", nameGuess |-> Fam, participants |-> {"a", "b"},
   messages |-> << Text("a", Hi, 1),
                   Text(NoAuthor, Joined, 2) >>]
TChat ==
  [path |-> "b.txt", nameGuess |-> GenericChat, participants |-> {"b"},
   messages |-> << Text("b", Yo, 2),
                   Text("b", More, NoTimestamp) >>]

\* A transcript in which one message comes twice (the export's timestamps
\* have minute resolution: the same text sent twice within a minute)
TTwice ==
  [path |-> "t.txt", nameGuess |-> Work, participants |-> {"c"},
   messages |-> << Text("c", Hi, 1),
                   Text("c", Hi, 1) >>]

\* A transcript with two attachments: the bundle holds the first one under
\* another case, and nothing like the second
Photo == <<"P", "-", "1", ".", "j", "p", "g">>
Lost == <<"x", ".", "p", "d", "f">>
TPhoto ==
  [path |-> "p.txt", nameGuess |-> Work, participants |-> {"d"},
   messages |-> << Attachment("d", Hi, 1, Photo), Attachment("d", Yo, 2, Lost) >>]

\* A bundle: whether the archive can be read, its parsed .txt entries, and
\* the keys of its Media Index (lower-cased basenames, in archive order)
BFam == [ok |-> TRUE, txtFiles |-> <<TFam>>, filesMap |-> <<>>]
BChat == [ok |-> TRUE, txtFiles |-> <<TChat>>, filesMap |-> <<>>]
BBoth == [ok |-> TRUE, txtFiles |-> <<TFam, TChat>>, filesMap |-> <<>>]
BTwice == [ok |-> TRUE, txtFiles |-> <<TTwice>>, filesMap |-> <<>>]
BPhoto == [ok |-> TRUE, txtFiles |-> <<TPhoto>>, filesMap |-> <<toLowerCase(Photo)>>]
BEmpty == [ok |-> TRUE, txtFiles |-> <<>>, filesMap |-> <<>>]
BCorrupt == [ok |-> FALSE, txtFiles |-> <<>>, filesMap |-> <<>>]
Bundles == {BFam, BChat, BBoth, BTwice, BPhoto, BEmpty, BCorrupt}

\* Variant of BundleError: without the test for transcripts
BundleErrorUnreadableOnly(b) == ~b.ok

\* loadZip throws, or extractZipMeta returns no .txt entry
BundleError(b) == ~b.ok \/ b.txtFiles = <<>>

\* The preview requests (each stages one bundle file): the session flow is
\* followed for one staged bundle
PreviewIds == {1}
NoPreviewId == 0
ReqIds == 1..MaxInFlight
TargetIds == 0..MaxChats

\* ------------------------------------------------------------------------
\* State

VARIABLES
  chats,        \* rows of chats
  participants, \* rows of chat_participants
  messages,     \* rows of messages (a bag)
  nextChatId,   \* AUTO_INCREMENT of chats
  previews,     \* the previews Map: previewId -> [userId, tempPath, createdAt]
  files,        \* tmp/: tempPath -> the bundle staged there
  now,          \* Date.now()
  reqs,         \* confirm requests: their position and their response
  job,          \* the processUpload call in progress
  resp,         \* the response the last step sent (NoResp if it sent none)
  issued,       \* history: preview request -> [userId, createdAt, session]
  unlinkCalls,  \* history: fs.unlink calls per staged file
  confirmed,    \* history: 200 responses of confirm per previewId
  imported,     \* history: <<transcript, chat>> imported once
  reimported,   \* history: <<transcript, chat>> imported again
  processingStatus, \* the processingStatus Map: processId -> status record
  tmpDirs,      \* uploads/<userId>/tmp/...: staging directory -> media keys in it
  procs         \* the calls of processUploadInBackground in progress

dbVars == <<chats, participants, messages, nextChatId>>
sessVars == <<previews, files>>
histVars == <<issued, unlinkCalls, confirmed, imported, reimported>>
procVars == <<processingStatus, tmpDirs, procs>>
vars == <<chats, participants, messages, nextChatId, previews, files, now,
          reqs, job, resp, issued, unlinkCalls, confirmed, imported, reimported,
          processingStatus, tmpDirs, procs>>

DB == [chats |-> chats, parts |-> participants, msgs |-> messages, nextId |-> nextChatId]

\* The committed database becomes d
Commit(d) ==
  /\ chats' = d.chats
  /\ participants' = d.parts
  /\ messages' = d.msgs
  /\ nextChatId' = d.nextId

\* The bounds on what a transaction may store
WithinBounds(d) ==
  /\ d.nextId <= MaxChats + 1
  /\ \A r \in BagToSet(d.msgs) : CopiesIn(r, d.msgs) <= MaxCopies

\* The history of which transcript went into which chat
Record(into) ==
  /\ imported' = imported \cup into
  /\ reimported' = reimported \cup (into \cap imported)

TotalMessages(txtFiles) ==
  LET RECURSIVE Sum(_)
      Sum(fs) == IF fs = <<>> THEN 0 ELSE Len(Head(fs).messages) + Sum(Tail(fs))
  IN Sum(txtFiles)

IdleReq ==
  [pc |-> "idle", userId |-> "", previewId |-> NoPreviewId, targetChatId |-> NoChatId,
   tempPath |-> NoPreviewId, zip |-> <<>>, filesMap |-> <<>>, stats |-> ZeroStats,
   total |-> 0,
   repeat |-> FALSE, changed |-> FALSE, acquired |-> 0, released |-> 0]

IdleJob == [pc |-> "idle", userId |-> "", txtFiles |-> <<>>, stats |-> ZeroStats,
            status |-> 0, committed |-> 0, total |-> 0, parsed |-> 0,
            readable |-> FALSE, filesMap |-> <<>>, mediaFailed |-> {},
            tempFile |-> "none", dropped |-> 0]

\* The calls of processUploadInBackground, which can be in progress at once
ProcSlots == {1, 2}

NoProcessId == <<>>

NoResp == [op |-> "none", userId |-> "", previewId |-> NoPreviewId, status |-> 0,
           stats |-> ZeroStats, total |-> 0, repeat |-> FALSE, changed |-> FALSE,
           suggestedChatId |-> NoChatId, confidence |-> 0, autoChatId |-> NoChatId,
           nameGuess |-> <<>>, participants |-> {}, overlaps |-> <<>>,
           chatIds |-> <<>>, mergedChatId |-> NoChatId, movedMessages |-> 0,
           skippedDuplicates |-> 0, deletedChats |-> <<>>, messageCount |-> 0,
           readable |-> FALSE, transcripts |-> 0, mediaFailed |-> {},
           tempFile |-> "none", processId |-> NoProcessId,
           acquired |-> 0, released |-> 0, deleted |-> 0]

IdleProc == [pc |-> "idle", userId |-> "", processId |-> NoProcessId,
             tempUploadDir |-> <<>>, txtFiles |-> <<>>, filesMap |-> <<>>,
             total |-> 0, processed |-> 0, fileIndex |-> 0, stats |-> ZeroStats,
             threw |-> FALSE]

\* No background import has been started
NoJobs ==
  /\ processingStatus = <<>>
  /\ tmpDirs = <<>>
  /\ procs = [s \in ProcSlots |-> IdleProc]

Init ==
  /\ chats = {}
  /\ participants = {}
  /\ messages = EmptyBag
  /\ nextChatId = 1
  /\ previews = <<>>
  /\ files = <<>>
  /\ now = 0
  /\ NoJobs
  /\ reqs = [r \in ReqIds |-> IdleReq]
  /\ job = IdleJob
  /\ resp = NoResp
  /\ issued = <<>>
  /\ unlinkCalls = [p \in PreviewIds |-> 0]
  /\ confirmed = [p \in PreviewIds |-> 0]
  /\ imported = {}
  /\ reimported = {}

\* A map without key k, and with k bound to v
Without(m, k) == [x \in DOMAIN m \ {k} |-> m[x]]
With(m, k, v) == [x \in DOMAIN m \cup {k} |-> IF x = k THEN v ELSE m[x]]


\* ------------------------------------------------------------------------
\* The staged bundle file and the previews map

\* fs.unlink(path).catch(() => {}): removes the file if it is there
Unlink(path) ==
  /\ files' = Without(files, path)
  /\ unlinkCalls' = [unlinkCalls EXCEPT ![path] = @ + 1]

\* A variant of Expired that lets a session live one tick longer
ExpiredOneTickLater(preview) == now - preview.createdAt > PREVIEW_TTL_MS + 1

\* now - preview.createdAt > PREVIEW_TTL_MS
Expired(preview) == now - preview.createdAt > PREVIEW_TTL_MS

\* A variant of Unauthorized that lets every caller through
UnauthorizedNobody(preview, userId) == FALSE

\* preview.userId !== userId
Unauthorized(preview, userId) == preview.userId # userId

\* The path multer stages the next preview upload at, and its previewId
NextPreviewId == Cardinality(DOMAIN issued) + 1

\* ------------------------------------------------------------------------
\* POST /upload/preview

\* loadZip throws: the catch unlinks the upload and answers 500;
\* no .txt entry: the upload is unlinked and the answer is 400
PreviewRejected(u, b) ==
  /\ NextPreviewId \in PreviewIds
  /\ BundleError(b)
  /\ issued' = With(issued, NextPreviewId,
                    [userId |-> u, createdAt |-> now, session |-> FALSE])
  /\ unlinkCalls' = [unlinkCalls EXCEPT ![NextPreviewId] = @ + 1]
  /\ resp' = [NoResp EXCEPT !.op = "preview", !.status = IF b.ok THEN 400 ELSE 500,
                            !.readable = b.ok, !.transcripts = Len(b.txtFiles)]
  /\ UNCHANGED <<procVars, dbVars, sessVars, now, reqs, job, confirmed, imported, reimported>>

\* A variant of the preview that resolves as the single-step upload does when
\* it finds no chat: it creates the chat of the main transcript
PreviewCreating(u, b) ==
  /\ NextPreviewId \in PreviewIds
  /\ ~BundleError(b)
  /\ LET mainChat == b.txtFiles[1]
         sug == findMatchingSuggestions(chats, participants, u,
                                        mainChat.nameGuess, mainChat.participants)
     IN /\ resp' = [NoResp EXCEPT !.op = "preview", !.userId = u, !.status = 200,
                                  !.readable = b.ok, !.transcripts = Len(b.txtFiles),
                                  !.suggestedChatId = sug.suggestedChatId,
                                  !.confidence = Confidence(sug)]
        /\ Commit(CreateChat(DB, u, mainChat.nameGuess, mainChat.participants))
  /\ previews' = With(previews, NextPreviewId,
                      [userId |-> u, tempPath |-> NextPreviewId, createdAt |-> now])
  /\ files' = With(files, NextPreviewId, b)
  /\ issued' = With(issued, NextPreviewId,
                    [userId |-> u, createdAt |-> now, session |-> TRUE])
  /\ UNCHANGED <<procVars, now, reqs, job, unlinkCalls, confirmed, imported, reimported>>

\* loadZip and extractZipMeta succeed and a transcript is found: the chats are
\* read for the suggestion, the session is stored, the upload stays on disk
Preview(u, b) ==
  /\ NextPreviewId \in PreviewIds
  /\ ~BundleError(b)
  /\ LET mainChat == b.txtFiles[1]
         sug == findMatchingSuggestions(chats, participants, u,
                                        mainChat.nameGuess, mainChat.participants)
     IN resp' = [NoResp EXCEPT !.op = "preview", !.userId = u, !.status = 200,
                               !.readable = b.ok, !.transcripts = Len(b.txtFiles),
                               !.suggestedChatId = sug.suggestedChatId,
                               !.confidence = Confidence(sug)]
  /\ previews' = With(previews, NextPreviewId,
                      [userId |-> u, tempPath |-> NextPreviewId, createdAt |-> now])
  /\ files' = With(files, NextPreviewId, b)
  /\ issued' = With(issued, NextPreviewId,
                    [userId |-> u, createdAt |-> now, session |-> TRUE])
  /\ UNCHANGED <<procVars, dbVars, now, reqs, job, unlinkCalls, confirmed, imported, reimported>>

\* ------------------------------------------------------------------------
\* POST /upload/confirm.  A request that reaches an await takes the first
\* free slot and leaves it when it answers.

FreeSlot(r) ==
  /\ reqs[r].pc = "idle"
  /\ \A x \in ReqIds : x < r => reqs[x].pc # "idle"

\* res.status(code).json(...) of a confirm of pid by u
Answer(u, pid, code) ==
  [NoResp EXCEPT !.op = "confirm", !.userId = u, !.previewId = pid, !.status = code]

\* the request in slot r answers with code and is over
Finish(r, code) ==
  /\ resp' = Answer(reqs[r].userId, reqs[r].previewId, code)
  /\ reqs' = [reqs EXCEPT ![r] = IdleReq]

\* the request in slot r answers with code from inside its transaction: it
\* has taken one connection and called conn.release() released times
FinishTxn(r, code, released) ==
  /\ resp' = [Answer(reqs[r].userId, reqs[r].previewId, code) EXCEPT
                !.acquired = 1, !.released = released]
  /\ reqs' = [reqs EXCEPT ![r] = IdleReq]

\* if (!previewId) return 400
ConfirmBadRequest(u) ==
  /\ resp' = Answer(u, NoPreviewId, 400)
  /\ UNCHANGED <<procVars, dbVars, sessVars, now, reqs, job, histVars>>

\* if (!preview) return 404
ConfirmNotFound(u, pid) ==
  /\ pid \notin DOMAIN previews
  /\ resp' = Answer(u, pid, 404)
  /\ UNCHANGED <<procVars, dbVars, sessVars, now, reqs, job, histVars>>

\* if (preview.userId !== userId) return 403
ConfirmForbidden(u, pid) ==
  /\ pid \in DOMAIN previews
  /\ Unauthorized(previews[pid], u)
  /\ resp' = Answer(u, pid, 403)
  /\ UNCHANGED <<procVars, dbVars, sessVars, now, reqs, job, histVars>>

\* the expiry branch: previews.delete, fs.unlink, 410
ConfirmExpired(u, pid) ==
  /\ pid \in DOMAIN previews
  /\ ~Unauthorized(previews[pid], u)
  /\ Expired(previews[pid])
  /\ previews' = Without(previews, pid)
  /\ Unlink(previews[pid].tempPath)
  /\ resp' = Answer(u, pid, 410)
  /\ UNCHANGED <<procVars, dbVars, now, reqs, job, issued, confirmed, imported, reimported>>

\* the checks pass: the handler awaits loadZip(preview.tempPath)
ConfirmAccept(r, u, pid, t) ==
  /\ FreeSlot(r)
  /\ pid \in DOMAIN previews
  /\ ~Unauthorized(previews[pid], u)
  /\ ~Expired(previews[pid])
  /\ reqs' = [reqs EXCEPT ![r] = [IdleReq EXCEPT !.pc = "load", !.userId = u,
                                    !.previewId = pid, !.targetChatId = t,
                                    !.tempPath = previews[pid].tempPath]]
  /\ resp' = NoResp
  /\ UNCHANGED <<procVars, dbVars, sessVars, now, job, histVars>>

\* loadZip reads the staged file, extractZipMeta parses it
ConfirmLoad(r) ==
  /\ reqs[r].pc = "load"
  /\ reqs[r].tempPath \in DOMAIN files
  /\ reqs' = [reqs EXCEPT ![r].pc = "txn", ![r].zip = files[reqs[r].tempPath].txtFiles,
                          ![r].filesMap = files[reqs[r].tempPath].filesMap]
  /\ resp' = NoResp
  /\ UNCHANGED <<procVars, dbVars, sessVars, now, job, histVars>>

\* loadZip throws (the file is gone): the outer catch answers 500
ConfirmLoadFail(r) ==
  /\ reqs[r].pc = "load"
  /\ reqs[r].tempPath \notin DOMAIN files
  /\ Finish(r, 500)
  /\ UNCHANGED <<procVars, dbVars, sessVars, now, job, histVars>>

\* The keys of a Media Index
MediaKeys(filesMap) == {filesMap[i] : i \in DOMAIN filesMap}

\* the transaction commits; saveBuffer may have thrown for some entries
ConfirmCommit(r) ==
  /\ reqs[r].pc = "txn"
  /\ \E failing \in SUBSET MediaKeys(reqs[r].filesMap) :
     LET res == ConfirmTransaction(DB, reqs[r].userId, reqs[r].targetChatId,
                  SaveMediaOfAll(reqs[r].zip, reqs[r].filesMap, failing))
     IN /\ res.status = 200
        /\ WithinBounds(res.db)
        /\ Commit(res.db)
        /\ Record(res.into)
        /\ reqs' = [reqs EXCEPT ![r].pc = "unlink", ![r].stats = res.stats,
                                ![r].zip = <<>>, ![r].filesMap = <<>>,
                                ![r].targetChatId = NoChatId,
                                ![r].acquired = 1, ![r].released = 1,
                                ![r].total = TotalMessages(reqs[r].zip),
                                ![r].repeat = (res.into \subseteq imported),
                                ![r].changed = (res.db.msgs # messages)]
  /\ resp' = NoResp
  /\ UNCHANGED <<procVars, sessVars, now, job, issued, unlinkCalls, confirmed>>

\* A variant of the 404 of the transaction that gives the session up:
\* previews.delete and fs.unlink before the answer
ConfirmChatNotFoundForgetting(r) ==
  /\ reqs[r].pc = "txn"
  /\ ConfirmTransaction(DB, reqs[r].userId, reqs[r].targetChatId, reqs[r].zip).status = 404
  /\ FinishTxn(r, 404, 2)
  /\ previews' = Without(previews, reqs[r].previewId)
  /\ Unlink(reqs[r].tempPath)
  /\ UNCHANGED <<procVars, dbVars, now, job, issued, confirmed, imported, reimported>>

\* the target chat is not the caller's: conn.rollback(), conn.release() and
\* return 404 inside the try, whose finally calls conn.release() again
ConfirmChatNotFound(r) ==
  /\ reqs[r].pc = "txn"
  /\ ConfirmTransaction(DB, reqs[r].userId, reqs[r].targetChatId, reqs[r].zip).status = 404
  /\ FinishTxn(r, 404, 2)
  /\ UNCHANGED <<procVars, dbVars, sessVars, now, job, histVars>>

\* a statement throws something other than ER_DUP_ENTRY: rollback, rethrow,
\* conn.release() in the finally, 500
ConfirmRollback(r) ==
  /\ reqs[r].pc = "txn"
  /\ FinishTxn(r, 500, 1)
  /\ UNCHANGED <<procVars, dbVars, sessVars, now, job, histVars>>

\* await fs.unlink(preview.tempPath)
ConfirmUnlink(r) ==
  /\ reqs[r].pc = "unlink"
  /\ Unlink(reqs[r].tempPath)
  /\ reqs' = [reqs EXCEPT ![r].pc = "delete"]
  /\ resp' = NoResp
  /\ UNCHANGED <<procVars, dbVars, previews, now, job, issued, confirmed, imported, reimported>>

\* previews.delete(previewId); res.json(stats)
ConfirmRespond(r) ==
  /\ reqs[r].pc = "delete"
  /\ previews' = Without(previews, reqs[r].previewId)
  /\ resp' = [Answer(reqs[r].userId, reqs[r].previewId, 200) EXCEPT
                !.stats = reqs[r].stats, !.total = reqs[r].total,
                !.repeat = reqs[r].repeat, !.changed = reqs[r].changed,
                !.acquired = reqs[r].acquired, !.released = reqs[r].released]
  /\ reqs' = [reqs EXCEPT ![r] = IdleReq]
  /\ confirmed' = [confirmed EXCEPT ![reqs[r].previewId] = @ + 1]
  /\ UNCHANGED <<procVars, dbVars, files, now, job, issued, unlinkCalls, imported, reimported>>

\* ------------------------------------------------------------------------
\* The sweep (setInterval) and the clock

Sweep ==
  LET gone == {id \in DOMAIN previews : Expired(previews[id])}
      paths == {previews[id].tempPath : id \in gone}
  IN /\ gone # {}
     /\ previews' = [id \in DOMAIN previews \ gone |-> previews[id]]
     /\ files' = [f \in DOMAIN files \ paths |-> files[f]]
     /\ unlinkCalls' = [f \in DOMAIN unlinkCalls |->
                          IF f \in paths THEN unlinkCalls[f] + 1 ELSE unlinkCalls[f]]
     /\ resp' = NoResp
     /\ UNCHANGED <<procVars, dbVars, now, reqs, job, issued, confirmed, imported, reimported>>

Tick ==
  /\ now < MaxTime
  /\ now' = now + 1
  /\ resp' = NoResp
  /\ UNCHANGED <<procVars, dbVars, sessVars, reqs, job, histVars>>


\* ------------------------------------------------------------------------
\* POST /upload (legacy single-step upload)

\* loadZip throws (500, outer catch) or the archive has no .txt entry (400):
\* neither path unlinks req.file.path, the uploaded file stays on disk.
\* tempFile is what has become of the uploaded file when the request answers.
UploadRejected(u, b) ==
  /\ BundleError(b)
  /\ resp' = [NoResp EXCEPT !.op = "upload", !.status = IF b.ok THEN 400 ELSE 500,
                            !.readable = b.ok, !.transcripts = Len(b.txtFiles),
                            !.tempFile = "left"]
  /\ UNCHANGED <<procVars, dbVars, sessVars, now, reqs, job, histVars>>

Upload(u, b) ==
  /\ ~BundleError(b)
  /\ \E failing \in SUBSET MediaKeys(b.filesMap) :
     LET res == UploadTransaction(DB, u, SaveMediaOfAll(b.txtFiles, b.filesMap, failing))
     IN /\ WithinBounds(res.db)
        /\ Commit(res.db)
        /\ Record(res.into)
        /\ resp' = [NoResp EXCEPT !.op = "upload", !.userId = u,
                                  !.status = 200, !.stats = res.stats,
                                  !.readable = b.ok, !.transcripts = Len(b.txtFiles),
                                  !.mediaFailed = failing,
                                  !.tempFile = "removed",
                                  !.acquired = 1, !.released = 1,
                                  !.total = TotalMessages(b.txtFiles),
                                  !.repeat = (res.into \subseteq imported),
                                  !.changed = (res.db.msgs # messages)]
  /\ UNCHANGED <<procVars, sessVars, now, reqs, job, issued, unlinkCalls, confirmed>>

\* a statement throws something other than ER_DUP_ENTRY: rollback, 500
UploadRollback(u, b) ==
  /\ ~BundleError(b)
  /\ resp' = [NoResp EXCEPT !.op = "upload", !.status = 500,
                            !.readable = b.ok, !.transcripts = Len(b.txtFiles),
                            !.tempFile = "left", !.acquired = 1, !.released = 1]
  /\ UNCHANGED <<procVars, dbVars, sessVars, now, reqs, job, histVars>>

\* ------------------------------------------------------------------------
\* POST /upload of the per-transcript variant (processUpload)

\* processZipEfficiently throws, or there is no .txt entry: 500
ProcessUploadRejected(u, b) ==
  /\ job.pc \in {"idle", "done"}
  /\ BundleError(b)
  /\ job' = [IdleJob EXCEPT !.pc = "done", !.userId = u, !.status = 500,
                            !.readable = b.ok, !.total = Len(b.txtFiles),
                            !.tempFile = "removed"]
  /\ resp' = NoResp
  /\ UNCHANGED <<procVars, dbVars, sessVars, now, reqs, histVars>>

ProcessUploadStart(u, b) ==
  /\ job.pc \in {"idle", "done"}
  /\ ~BundleError(b)
  /\ job' = [IdleJob EXCEPT !.pc = "run", !.userId = u, !.txtFiles = b.txtFiles,
                            !.total = Len(b.txtFiles), !.readable = b.ok,
                            !.filesMap = b.filesMap,
                            !.tempFile = "staged",
                            !.parsed = TotalMessages(b.txtFiles)]
  /\ resp' = NoResp
  /\ UNCHANGED <<procVars, dbVars, sessVars, now, reqs, histVars>>

\* one iteration of the loop: its own transaction, committed
ProcessUploadCommit ==
  /\ job.pc = "run"
  /\ job.txtFiles # <<>>
  /\ LET parsed == Head(job.txtFiles)
         res == ProcessTranscript(DB, job.stats, job.userId,
                  [parsed EXCEPT !.messages = CopyMedia(@, job.filesMap)])
         rest == Tail(job.txtFiles)
     IN /\ WithinBounds(res.db)
        /\ Commit(res.db)
        /\ Record({res.into})
        /\ job' = [job EXCEPT !.txtFiles = rest, !.stats = res.stats,
                              !.committed = @ + 1,
                              !.pc = IF rest = <<>> THEN "done" ELSE "run",
                              !.tempFile = IF rest = <<>> THEN "removed" ELSE @,
                              !.status = IF rest = <<>> THEN 200 ELSE 0]
  /\ resp' = NoResp
  /\ UNCHANGED <<procVars, sessVars, now, reqs, issued, unlinkCalls, confirmed>>

\* The batch INSERT of an iteration throws and some of the individual INSERTs
\* of the catch throw an error that is not ER_DUP_ENTRY: the iteration goes on
\* and commits
ProcessUploadInsertFails ==
  /\ job.pc = "run"
  /\ job.txtFiles # <<>>
  /\ LET parsed == Head(job.txtFiles)
         f == findOrCreateChatForUser(DB, job.userId, parsed.nameGuess,
                                      parsed.participants)
         newMessages == CopyMedia(ProcessNewMessages(DB, job.userId, parsed),
                                  job.filesMap)
         rest == Tail(job.txtFiles)
     IN \E failing \in SUBSET (DOMAIN newMessages) :
          LET b == batchInsertFallback(f.db.msgs, f.chatId, newMessages, failing, 1)
              d == [f.db EXCEPT !.msgs = b.msgs]
          IN /\ failing # {}
             /\ WithinBounds(d)
             /\ Commit(d)
             /\ Record({<<parsed.path, f.chatId>>})
             /\ job' = [job EXCEPT
                          !.txtFiles = rest,
                          !.stats = [@ EXCEPT
                             !.addedChats = IF f.created THEN @ + 1 ELSE @,
                             !.updatedChats = IF f.created THEN @ ELSE @ + 1,
                             !.addedMessages = @ + b.inserted,
                             !.skippedMessages = @ + b.skipped
                                + (Len(parsed.messages) - Len(newMessages))],
                          !.committed = @ + 1,
                          !.dropped = @ + b.dropped,
                          !.pc = IF rest = <<>> THEN "done" ELSE "run",
                          !.tempFile = IF rest = <<>> THEN "removed" ELSE @,
                          !.status = IF rest = <<>> THEN 200 ELSE 0]
  /\ resp' = NoResp
  /\ UNCHANGED <<procVars, sessVars, now, reqs, issued, unlinkCalls, confirmed>>

\* fs.copyFile of an attachment of a new message throws inside Promise.all:
\* nothing catches it before the catch of the iteration, which rolls back
\* and rethrows; the call answers 500
ProcessUploadCopyFails ==
  /\ job.pc = "run"
  /\ job.txtFiles # <<>>
  /\ LET newMessages == ProcessNewMessages(DB, job.userId, Head(job.txtFiles))
         copied == {CopyHit(job.filesMap, newMessages[i]) : i \in DOMAIN newMessages}
                     \ {<<>>}
     IN \E key \in copied :
          job' = [job EXCEPT !.pc = "done", !.status = 500, !.mediaFailed = {key},
                             !.tempFile = "removed"]
  /\ resp' = NoResp
  /\ UNCHANGED <<procVars, dbVars, sessVars, now, reqs, histVars>>

\* an iteration throws (getConnection, a statement of findOrCreateChatForUser
\* or of the insert): its transaction is rolled back, the call answers 500
ProcessUploadThrow ==
  /\ job.pc = "run"
  /\ job' = [job EXCEPT !.pc = "done", !.status = 500, !.tempFile = "removed"]
  /\ resp' = NoResp
  /\ UNCHANGED <<procVars, dbVars, sessVars, now, reqs, histVars>>

\* ------------------------------------------------------------------------
\* POST /chats/merge

\* fewer than two ids (400), or an id that is not the caller's chat (404,
\* after a rollback)
MergeRejected(u, raw) ==
  /\ LET chatIds == MergeIds(raw)
     IN resp' = [NoResp EXCEPT !.op = "merge", !.userId = u, !.chatIds = chatIds,
                   !.status = IF Len(chatIds) < 2 THEN 400
                              ELSE MergeTransaction(DB, u, chatIds).status,
                   !.acquired = IF Len(chatIds) < 2 THEN 0 ELSE 1,
                   !.released = IF Len(chatIds) < 2 THEN 0 ELSE 1]
  /\ resp'.status # 200
  /\ UNCHANGED <<procVars, dbVars, sessVars, now, reqs, job, histVars>>

\* The response of a merge whose transaction res has ended with code
MergeAnswer(u, chatIds, res, code) ==
  [NoResp EXCEPT !.op = "merge", !.userId = u, !.chatIds = chatIds, !.status = code,
                 !.acquired = 1, !.released = 1,
                 !.mergedChatId = IF code = 200 THEN res.targetId ELSE NoChatId,
                 !.movedMessages = IF code = 200 THEN res.movedMessages ELSE 0,
                 !.skippedDuplicates = IF code = 200 THEN res.skippedDuplicates ELSE 0,
                 !.deletedChats = IF code = 200 THEN res.deletedChats ELSE <<>>,
                 !.messageCount = IF code = 200 THEN CountIn(res.db.msgs, res.targetId)
                                  ELSE 0]

\* The transaction commits and the merged chat is read back and returned
Merge(u, raw) ==
  /\ LET chatIds == MergeIds(raw)
     IN /\ Len(chatIds) >= 2
        /\ LET res == MergeTransaction(DB, u, chatIds)
           IN /\ res.status = 200
              /\ Commit(res.db)
              /\ resp' = MergeAnswer(u, chatIds, res, 200)
  /\ UNCHANGED <<procVars, sessVars, now, reqs, job, histVars>>

\* A statement between the ownership check and the commit throws (the name
\* update, a participant insert, a message insert with an error other than
\* ER_DUP_ENTRY, the deletion of a source, the commit): catch rolls back
MergeRollback(u, raw) ==
  /\ LET chatIds == MergeIds(raw)
     IN /\ Len(chatIds) >= 2
        /\ LET res == MergeTransaction(DB, u, chatIds)
           IN /\ res.status = 200
              /\ resp' = MergeAnswer(u, chatIds, res, 500)
  /\ UNCHANGED <<procVars, dbVars, sessVars, now, reqs, job, histVars>>

\* The transaction has committed and one of the reads that build the answer
\* (pool.execute, outside the transaction) throws: the rollback in catch has
\* nothing left to undo
MergeReadBackFails(u, raw) ==
  /\ LET chatIds == MergeIds(raw)
     IN /\ Len(chatIds) >= 2
        /\ LET res == MergeTransaction(DB, u, chatIds)
           IN /\ res.status = 200
              /\ Commit(res.db)
              /\ resp' = MergeAnswer(u, chatIds, res, 500)
  /\ UNCHANGED <<procVars, sessVars, now, reqs, job, histVars>>

\* ------------------------------------------------------------------------
\* DELETE /chats/:id and DELETE /chats/selected

\* DELETE FROM chats WHERE id = ? AND user_id = ?: 404 when no row is affected
DeleteChat(u, chatId) ==
  /\ LET owned == OwnedChat(chats, chatId, u) # {}
     IN /\ Commit(IF owned THEN DeleteChatCascade(DB, chatId) ELSE DB)
        /\ resp' = [NoResp EXCEPT !.op = "delete", !.userId = u,
                                  !.status = IF owned THEN 200 ELSE 404,
                                  !.deleted = IF owned THEN 1 ELSE 0]
  /\ UNCHANGED <<procVars, sessVars, now, reqs, job, histVars>>

\* ids = req.body.ids.map(Number).filter(Boolean); 400 when none is left
DeleteSelected(u, raw) ==
  /\ LET ids == SelectSeq(raw, LAMBDA id : id # NoChatId)
         res == deleteChatsByIdsForUser(DB, u, ids)
     IN /\ Commit(IF ids = <<>> THEN DB ELSE res.db)
        /\ resp' = [NoResp EXCEPT !.op = "delete", !.userId = u,
                                  !.status = IF ids = <<>> THEN 400 ELSE 200,
                                  !.deleted = IF ids = <<>> THEN 0 ELSE res.affectedRows]
  /\ UNCHANGED <<procVars, sessVars, now, reqs, job, histVars>>

\* ------------------------------------------------------------------------
\* POST /upload of the background variant (processUploadInBackground)

\* The entries processZipStreamChunked handles in one Promise.all
BATCH_SIZE == 10

\* A progress value: num / den
Frac(n, d) == [num |-> n, den |-> d]

\* const processId = `${userId}-${Date.now()}`
ProcessId(userId, time) == <<userId, time>>

\* path.join('uploads', String(userId), 'tmp', processId) of the background
\* import; path.join('uploads', String(userId), 'tmp') of processUpload, which
\* has no processId
TempUploadDir(userId, processId) ==
  IF processId = NoProcessId THEN <<userId, "tmp">> ELSE <<userId, "tmp", processId>>

\* updateProgress: the record of processId, if there is one, is replaced by
\* { ...current, ...update }
updateProgress(status, processId, update) ==
  IF processId \in DOMAIN status
  THEN [status EXCEPT ![processId] =
          [k \in DOMAIN @ \cup DOMAIN update |->
             IF k \in DOMAIN update THEN update[k] ELSE @[k]]]
  ELSE status

\* The catch of processUploadInBackground: status and error are set, the
\* other fields of the record stay.  (processUpload keeps no record.)
StatusError(status, processId) ==
  IF processId = NoProcessId THEN status
  ELSE
  With(status, processId,
       [k \in DOMAIN status[processId] \cup {"status", "error"} |->
          IF k = "status" THEN "error"
          ELSE IF k = "error" THEN TRUE
          ELSE status[processId][k]])

\* The call starts: the record is set, then updated, before the first await.
\* extra counts the entries of the archive besides its transcripts and the
\* media its messages can name.  background tells processUploadInBackground
\* from processUpload, which stages and imports in the same way but has no
\* processId and no record.
JobStart(s, u, b, extra, background) ==
  /\ procs[s].pc = "idle"
  /\ LET processId == IF background THEN ProcessId(u, now) ELSE NoProcessId
         started == With(processingStatus, processId,
                         [userId |-> u, status |-> "processing",
                          progress |-> Frac(0, 1), stage |-> "starting",
                          error |-> FALSE, result |-> ZeroStats])
     IN /\ processingStatus' =
             IF background
             THEN updateProgress(started, processId,
                                 [stage |-> "extracting", progress |-> Frac(10, 1)])
             ELSE processingStatus
        /\ procs' = [procs EXCEPT ![s] =
             [IdleProc EXCEPT !.pc = IF b.ok THEN "extract" ELSE "failed",
                              !.userId = u, !.processId = processId,
                              !.tempUploadDir = TempUploadDir(u, processId),
                              !.txtFiles = b.txtFiles, !.filesMap = b.filesMap,
                              !.total = Len(b.txtFiles) + Len(b.filesMap) + extra]]
  /\ resp' = NoResp
  /\ UNCHANGED <<dbVars, sessVars, now, reqs, job, histVars, tmpDirs>>

\* zip.loadAsync throws, or the archive has no entry and no transcript, or
\* a write of the batch throws, or the import of a transcript throws and is
\* rolled back: the catch marks the record
JobThrows(s) ==
  /\ \/ procs[s].pc = "failed"
     \/ procs[s].pc = "extract" /\ procs[s].processed < procs[s].total
     \/ procs[s].pc = "extract" /\ procs[s].processed = procs[s].total
                                /\ procs[s].txtFiles = <<>>
     \/ procs[s].pc = "import"
  /\ processingStatus' = StatusError(processingStatus, procs[s].processId)
  /\ procs' = [procs EXCEPT ![s].pc = "cleanup", ![s].threw = TRUE]
  /\ resp' = NoResp
  /\ UNCHANGED <<dbVars, sessVars, now, reqs, job, histVars, tmpDirs>>

\* One batch of processZipStreamChunked: the entries are the transcripts, then
\* the media of filesMap, then the further entries.  (processZipEfficiently
\* of processUpload stages all entries before it returns.)
JobExtractBatch(s) ==
  /\ procs[s].pc = "extract"
  /\ procs[s].processed < procs[s].total
  /\ LET p == procs[s]
         n == IF p.processId = NoProcessId THEN p.total - p.processed
              ELSE Min(BATCH_SIZE, p.total - p.processed)
         processed == p.processed + n
         written == {p.filesMap[i - Len(p.txtFiles)] :
                       i \in ((p.processed + 1)..processed)
                              \cap ((Len(p.txtFiles) + 1)..(Len(p.txtFiles) + Len(p.filesMap)))}
         staged == IF p.tempUploadDir \in DOMAIN tmpDirs
                   THEN tmpDirs[p.tempUploadDir] ELSE {}
     IN /\ tmpDirs' = IF written = {} /\ processed <= Len(p.txtFiles) THEN tmpDirs
                      ELSE With(tmpDirs, p.tempUploadDir, staged \cup written)
        /\ processingStatus' =
             updateProgress(processingStatus, p.processId,
                            [stage |-> "extracting",
                             progress |-> Frac(processed * 50, p.total)])
        /\ procs' = [procs EXCEPT ![s].processed = processed]
  /\ resp' = NoResp
  /\ UNCHANGED <<dbVars, sessVars, now, reqs, job, histVars>>

\* The extraction returned transcripts: 'parsing', then the first iteration's
\* 'processing_chats', up to pool.getConnection()
JobParse(s) ==
  /\ procs[s].pc = "extract"
  /\ procs[s].processed = procs[s].total
  /\ procs[s].txtFiles # <<>>
  /\ LET p == procs[s]
         parsing == updateProgress(processingStatus, p.processId,
                                   [stage |-> "parsing", progress |-> Frac(60, 1)])
     IN processingStatus' =
          updateProgress(parsing, p.processId,
                         [stage |-> "processing_chats",
                          progress |-> Frac(60 * Len(p.txtFiles), Len(p.txtFiles)),
                          currentFile |-> p.txtFiles[1].path])
  /\ procs' = [procs EXCEPT ![s].pc = "import"]
  /\ resp' = NoResp
  /\ UNCHANGED <<dbVars, sessVars, now, reqs, job, histVars, tmpDirs>>

\* The media of the staging directory the new messages of the next transcript
\* are copied from
JobNeeds(s) ==
  LET p == procs[s]
      newMessages == ProcessNewMessages(DB, p.userId, p.txtFiles[p.fileIndex + 1])
  IN {CopyHit(p.filesMap, newMessages[i]) : i \in DOMAIN newMessages} \ {<<>>}

\* The staged media of a call that are still in its staging directory
JobStaged(s) ==
  IF procs[s].tempUploadDir \in DOMAIN tmpDirs
  THEN tmpDirs[procs[s].tempUploadDir] ELSE {}

\* One iteration of the loop over the transcripts, committed; then either the
\* next iteration's 'processing_chats' or 'completed'
JobTranscript(s) ==
  /\ procs[s].pc = "import"
  /\ JobNeeds(s) \subseteq JobStaged(s)
  /\ LET p == procs[s]
         parsed == p.txtFiles[p.fileIndex + 1]
         res == ProcessTranscript(DB, p.stats, p.userId,
                  [parsed EXCEPT !.messages = CopyMedia(@, p.filesMap)])
         fileIndex == p.fileIndex + 1
         last == fileIndex = Len(p.txtFiles)
     IN /\ WithinBounds(res.db)
        /\ Commit(res.db)
        /\ Record({res.into})
        /\ processingStatus' =
             IF last
             THEN updateProgress(processingStatus, p.processId,
                                 [stage |-> "completed", progress |-> Frac(100, 1),
                                  status |-> "completed", result |-> res.stats])
             ELSE updateProgress(processingStatus, p.processId,
                                 [stage |-> "processing_chats",
                                  progress |-> Frac(60 * Len(p.txtFiles) + 30 * fileIndex,
                                                    Len(p.txtFiles)),
                                  currentFile |-> p.txtFiles[fileIndex + 1].path])
        /\ procs' = [procs EXCEPT ![s].fileIndex = fileIndex, ![s].stats = res.stats,
                                  ![s].pc = IF last THEN "cleanup" ELSE "import"]
  /\ resp' = NoResp
  /\ UNCHANGED <<sessVars, now, reqs, job, issued, unlinkCalls, confirmed, tmpDirs>>

\* finally: the uploaded file is unlinked and the staging directory removed
\* with all it holds
JobCleanup(s) ==
  /\ procs[s].pc = "cleanup"
  /\ tmpDirs' = IF procs[s].tempUploadDir \in DOMAIN tmpDirs
                THEN Without(tmpDirs, procs[s].tempUploadDir) ELSE tmpDirs
  /\ procs' = [procs EXCEPT ![s].pc = "done"]
  /\ resp' = NoResp
  /\ UNCHANGED <<dbVars, sessVars, now, reqs, job, histVars, processingStatus>>

\* processUploadInBackground returns and the request is answered with the
\* processId.  (The timer that deletes the record fires 3600000 ms later.)
\* processUpload returns its stats or rethrows, and the request is answered.
JobReturn(s) ==
  /\ procs[s].pc = "done"
  /\ procs' = [procs EXCEPT ![s].pc = "returned"]
  /\ resp' = IF procs[s].processId # NoProcessId
             THEN [NoResp EXCEPT !.op = "background", !.userId = procs[s].userId,
                                 !.status = 200, !.processId = procs[s].processId]
             ELSE [NoResp EXCEPT !.op = "upload", !.userId = procs[s].userId,
                                 !.status = IF procs[s].threw THEN 500 ELSE 200,
                                 !.stats = procs[s].stats, !.tempFile = "removed"]
  /\ UNCHANGED <<dbVars, sessVars, now, reqs, job, histVars, processingStatus, tmpDirs>>

\* ------------------------------------------------------------------------
\* Specifications.  Spec is the whole system from an empty database.
\* SpecStore is its restriction to the single-step imports; SpecIntake to
\* the requests that take a bundle in (upload, background import, preview);
\* SpecMedia to the single-step imports of bundles with attachments.  SpecMerge is
\* its restriction to the merge, started from databases that confirmed
\* imports have filled.
\* SpecSession is its restriction to the preview/confirm flow with the sweep
\* and the clock, started from a database that earlier uploads have filled.

\* Who uploads what
Uploads ==
  {<<"u1", BFam>>, <<"u1", BChat>>, <<"u1", BBoth>>, <<"u1", BTwice>>,
   <<"u1", BEmpty>>, <<"u1", BCorrupt>>, <<"u2", BFam>>}

\* Who imports a bundle with attachments
MediaUploads == {<<"u1", BPhoto>>, <<"u2", BPhoto>>, <<"u1", BChat>>}

\* Exports of one chat under changing names: a generic nameGuess and two
\* proper ones, the last export with one more participant
TSolo ==
  [path |-> "s.txt", nameGuess |-> Fam, participants |-> {"b"},
   messages |-> << Text("b", Hi, 1) >>]
TSoloWork ==
  [path |-> "v.txt", nameGuess |-> Work, participants |-> {"b", "c"},
   messages |-> << Text("b", Joined, 2) >>]
BSolo == [ok |-> TRUE, txtFiles |-> <<TSolo>>, filesMap |-> <<>>]
BRenames == [ok |-> TRUE, txtFiles |-> <<TSolo, TSoloWork>>, filesMap |-> <<>>]
NameUploads ==
  {<<"u1", BChat>>, <<"u1", BSolo>>, <<"u1", BRenames>>}

\* Exports of one chat at different times: a note without a timestamp, a
\* message at time 1 (s.txt), one at time 2 and a note (b.txt), and another
\* message of time 2
TNote ==
  [path |-> "n.txt", nameGuess |-> <<>>, participants |-> {"b"},
   messages |-> << Text("b", More, NoTimestamp) >>]
TLate ==
  [path |-> "l.txt", nameGuess |-> GenericChat, participants |-> {"b"},
   messages |-> << Text("b", Joined, 2) >>]
BNote == [ok |-> TRUE, txtFiles |-> <<TNote>>, filesMap |-> <<>>]
BLate == [ok |-> TRUE, txtFiles |-> <<TLate>>, filesMap |-> <<>>]
CutoffUploads ==
  {<<"u1", BNote>>, <<"u1", BSolo>>, <<"u1", BChat>>, <<"u1", BLate>>}

\* The chats a merge is asked about: the merges start from three chats, so
\* that a merge can have two sources and a chat of somebody else
MergeChats == {1, 2, 3}

\* The chatIds arrays of merge requests: two ids (one array repeats an id),
\* all ids upwards and downwards, one with a falsy entry and one with an id
\* no chat has
MergeInputs ==
  {<<a, b>> : a \in MergeChats, b \in MergeChats}
    \cup {<<1, 2, 3>>, <<3, 2, 1>>, <<0, 1>>, <<1, Cardinality(MergeChats) + 1>>}

EmptyDB == [chats |-> {}, parts |-> {}, msgs |-> EmptyBag, nextId |-> 1]

\* The database the session flow starts from: u1 has uploaded b.txt, which
\* made chat 1
SeedOne == UploadTransaction(EmptyDB, "u1", <<TChat>>)
Seeds == { [db |-> SeedOne.db, into |-> SeedOne.into] }

\* Who stages what
Stagings ==
  {<<"u1", BChat>>, <<"u2", BFam>>, <<"u1", BEmpty>>, <<"u1", BCorrupt>>}

\* A third transcript: one message, which fam.txt holds too
TWork ==
  [path |-> "w.txt", nameGuess |-> Work, participants |-> {"a", "c"},
   messages |-> << Text("a", Hi, 1) >>]
MergeTranscripts == {TFam, TChat, TWork}

\* The database after every import of a sequence of <<owner, transcript>> was
\* confirmed without a target, each into a chat of its own: [db, into]
RECURSIVE ConfirmedEach(_, _)
ConfirmedEach(acc, imports) ==
  IF imports = <<>> THEN acc
  ELSE LET r == ConfirmTransaction(acc.db, Head(imports)[1], NoChatId,
                                   <<Head(imports)[2]>>)
       IN ConfirmedEach([db |-> r.db, into |-> acc.into \cup r.into], Tail(imports))

\* What the merges start from: u1 owns every chat but the last, which is
\* u1's or u2's
MergeSeeds ==
  {ConfirmedEach([db |-> EmptyDB, into |-> {}], imps) :
     imps \in {f \in [MergeChats -> Users \X MergeTranscripts] :
                f[1][1] = "u1" /\ f[2][1] = "u1"}}

InitMerge ==
  /\ \E seed \in MergeSeeds :
       /\ chats = seed.db.chats
       /\ participants = seed.db.parts
       /\ messages = seed.db.msgs
       /\ nextChatId = seed.db.nextId
       /\ imported = seed.into
  /\ previews = <<>>
  /\ files = <<>>
  /\ now = 0
  /\ NoJobs
  /\ reqs = [r \in ReqIds |-> IdleReq]
  /\ job = IdleJob
  /\ resp = NoResp
  /\ issued = <<>>
  /\ unlinkCalls = [p \in PreviewIds |-> 0]
  /\ confirmed = [p \in PreviewIds |-> 0]
  /\ reimported = {}

InitSession ==
  /\ \E seed \in Seeds :
       /\ chats = seed.db.chats
       /\ participants = seed.db.parts
       /\ messages = seed.db.msgs
       /\ nextChatId = seed.db.nextId
       /\ imported = seed.into
  /\ previews = <<>>
  /\ files = <<>>
  /\ now = 0
  /\ NoJobs
  /\ reqs = [r \in ReqIds |-> IdleReq]
  /\ job = IdleJob
  /\ resp = NoResp
  /\ issued = <<>>
  /\ unlinkCalls = [p \in PreviewIds |-> 0]
  /\ confirmed = [p \in PreviewIds |-> 0]
  /\ reimported = {}

\* Identity resolution on its own: the caller's chats and a transcript are
\* drawn from bounded sets (the initial states), and both resolvers are
\* applied to them.
ResolveNames == {Fam, FamLoose, Work, GenericChat}
ResolveParticipants ==
  {{}, {"a", "b"}, {"c", "d"}, {"b"}, {"a", "b", "c", "d"}, {"a", "b", "c", "x"},
   {"a", "x", "y", "z"}, {"a", "y", "z"}}

\* The members of a large group, and those numbered i..j
Members ==
  <<"m01", "m02", "m03", "m04", "m05", "m06", "m07", "m08", "m09", "m10",
    "m11", "m12", "m13", "m14", "m15", "m16", "m17", "m18", "m19", "m20",
    "m21", "m22", "m23", "m24", "m25", "m26", "m27", "m28">>
MembersIn(i, j) == {Members[k] : k \in i..j}

\* A transcript of 15 members; a chat of 15 that shares 8 of them (overlap
\* 8/15) and a chat of 13 that shares 7 of them (overlap 7/13)
LargeGroup == MembersIn(1, 15)
LargeShares8of15 == MembersIn(1, 8) \cup MembersIn(16, 22)
LargeShares7of13 == MembersIn(1, 7) \cup MembersIn(23, 28)

\* What the resolvers are asked: the transcript's nameGuess and participants
Query(u, nameGuess, participantsSet) ==
  [NoResp EXCEPT !.op = "query", !.userId = u, !.nameGuess = nameGuess,
                 !.participants = participantsSet]

InitResolve ==
  /\ \/ /\ \E n1 \in ResolveNames, n2 \in ResolveNames, o2 \in Users,
              p1 \in ResolveParticipants, p2 \in ResolveParticipants :
             /\ chats = {[id |-> 1, user_id |-> "u1", name |-> n1],
                         [id |-> 2, user_id |-> o2, name |-> n2]}
             /\ participants = {[chat_id |-> 1, name |-> x] : x \in p1}
                                 \cup {[chat_id |-> 2, name |-> x] : x \in p2}
        /\ \E nameGuess \in ResolveNames \cup {<<>>},
              participantsSet \in ResolveParticipants :
             resp = Query("u1", nameGuess, participantsSet)
     \/ /\ \E n1 \in ResolveNames, n2 \in ResolveNames,
              p1 \in {LargeShares8of15, LargeShares7of13},
              p2 \in {LargeShares8of15, LargeShares7of13} :
             /\ chats = {[id |-> 1, user_id |-> "u1", name |-> n1],
                         [id |-> 2, user_id |-> "u1", name |-> n2]}
             /\ participants = {[chat_id |-> 1, name |-> x] : x \in p1}
                                 \cup {[chat_id |-> 2, name |-> x] : x \in p2}
        /\ \E nameGuess \in {Fam, <<>>} : resp = Query("u1", nameGuess, LargeGroup)
  /\ messages = EmptyBag
  /\ nextChatId = 3
  /\ previews = <<>>
  /\ files = <<>>
  /\ now = 0
  /\ NoJobs
  /\ reqs = [r \in ReqIds |-> IdleReq]
  /\ job = IdleJob
  /\ issued = <<>>
  /\ unlinkCalls = [p \in PreviewIds |-> 0]
  /\ confirmed = [p \in PreviewIds |-> 0]
  /\ imported = {}
  /\ reimported = {}

\* Extraction on its own: the staged file holds an archive drawn from bounded
\* sets (the initial states), and each ingestor is applied to it with every
\* choice of failing media entries.
TxtLower == [name |-> <<"a", ".", "t", "x", "t">>, dir |-> FALSE]
TxtUpper == [name |-> <<"B", ".", "T", "X", "T">>, dir |-> FALSE]
MediaDir == [name |-> <<"m", "/">>, dir |-> TRUE]
MediaInDir == [name |-> <<"m", "/", "P", ".", "j", "p", "g">>, dir |-> FALSE]
MediaTop == [name |-> <<"q", ".", "p", "d", "f">>, dir |-> FALSE]
ArchiveEntries == {TxtLower, TxtUpper, MediaDir, MediaInDir, MediaTop}
MaxEntries == 3
Archives ==
  {a \in UNION {[1..n -> ArchiveEntries] : n \in 1..MaxEntries} :
     \A i \in DOMAIN a : \A j \in DOMAIN a : a[i] = a[j] => i = j}

InitExtract ==
  /\ \E a \in Archives : files = [p \in PreviewIds |-> [entries |-> a]]
  /\ chats = {}
  /\ participants = {}
  /\ messages = EmptyBag
  /\ nextChatId = 1
  /\ previews = <<>>
  /\ now = 0
  /\ NoJobs
  /\ reqs = [r \in ReqIds |-> IdleReq]
  /\ job = IdleJob
  /\ resp = NoResp
  /\ issued = <<>>
  /\ unlinkCalls = [p \in PreviewIds |-> 0]
  /\ confirmed = [p \in PreviewIds |-> 0]
  /\ imported = {}
  /\ reimported = {}

\* The names of the media entries of an archive, and the orders in which its
\* .txt entries can be pushed
MediaNames(entries) ==
  {entries[i].name : i \in {k \in DOMAIN entries : ~entries[k].dir /\ ~IsTxtEntry(entries[k])}}
TxtNames(entries) ==
  {entries[i].name : i \in {k \in DOMAIN entries : ~entries[k].dir /\ IsTxtEntry(entries[k])}}
TxtOrders(entries) ==
  {o \in [1..Cardinality(TxtNames(entries)) -> TxtNames(entries)] :
     \A i \in DOMAIN o : \A j \in DOMAIN o : o[i] = o[j] => i = j}

\* An ingestor has run on the staged file at path p: what it returned
Extracted(ingestor, res, failing) ==
  /\ job' = [IdleJob EXCEPT !.pc = "extracted", !.readable = res.ok,
                            !.txtFiles = res.txtFiles, !.filesMap = res.filesMap,
                            !.mediaFailed = failing]
  /\ resp' = [NoResp EXCEPT !.op = ingestor]
  /\ UNCHANGED <<procVars, dbVars, sessVars, now, reqs, histVars>>

ExtractInMemory(p, failing) ==
  Extracted("extractZipMeta",
            extractZipMeta([ok |-> TRUE, txtFiles |-> <<>>, filesMap |-> <<>>],
                           files[p].entries, failing),
            failing)

ExtractStreamed(p, failing) ==
  Extracted("processZipEfficiently",
            processZipEfficiently([ok |-> TRUE, txtFiles |-> <<>>, filesMap |-> <<>>],
                                  files[p].entries, failing),
            failing)

ExtractChunked(p, failing) ==
  \E txtOrder \in TxtOrders(files[p].entries) :
    Extracted("processZipStreamChunked",
              processZipStreamChunked(files[p].entries, failing, txtOrder),
              failing)

NextExtract ==
  \/ \E p \in PreviewIds : \E failing \in SUBSET MediaNames(files[p].entries) :
       ExtractInMemory(p, failing)
  \/ \E p \in PreviewIds : \E failing \in SUBSET MediaNames(files[p].entries) :
       ExtractStreamed(p, failing)
  \/ \E p \in PreviewIds : \E failing \in SUBSET MediaNames(files[p].entries) :
       ExtractChunked(p, failing)

\* const overlap = participantOverlap(participantsSet, partSet), for every
\* chat of the caller
Overlaps(u, participantsSet) ==
  [id \in {c.id : c \in {x \in chats : x.user_id = u}} |->
     participantOverlap(participantsSet, PartsOfChat(participants, id))]

\* findMatchingSuggestions and the search of autoFindOrCreateChat, applied to
\* the same transcript
Resolve(u, nameGuess, participantsSet) ==
  /\ LET sug == findMatchingSuggestions(chats, participants, u, nameGuess, participantsSet)
     IN resp' = [NoResp EXCEPT !.op = "resolve", !.userId = u, !.status = 200,
                               !.suggestedChatId = sug.suggestedChatId,
                               !.confidence = Confidence(sug),
                               !.autoChatId = AutoFind(chats, participants, u,
                                                       nameGuess, participantsSet),
                               !.nameGuess = nameGuess,
                               !.participants = participantsSet,
                               !.overlaps = Overlaps(u, participantsSet)]
  /\ UNCHANGED <<procVars, dbVars, sessVars, now, reqs, job, histVars>>

NextResolve ==
  /\ resp.op = "query"
  /\ Resolve(resp.userId, resp.nameGuess, resp.participants)

NextSession ==
  \/ \E in \in Stagings : PreviewRejected(in[1], in[2])
  \/ \E in \in Stagings : Preview(in[1], in[2])
  \/ \E u \in Users : ConfirmBadRequest(u)
  \/ \E u \in Users, pid \in PreviewIds : ConfirmNotFound(u, pid)
  \/ \E u \in Users, pid \in PreviewIds : ConfirmForbidden(u, pid)
  \/ \E u \in Users, pid \in PreviewIds : ConfirmExpired(u, pid)
  \/ \E r \in ReqIds, u \in Users, pid \in PreviewIds, t \in TargetIds :
        ConfirmAccept(r, u, pid, t)
  \/ \E r \in ReqIds : ConfirmLoad(r)
  \/ \E r \in ReqIds : ConfirmLoadFail(r)
  \/ \E r \in ReqIds : ConfirmCommit(r)
  \/ \E r \in ReqIds : ConfirmChatNotFound(r)
  \/ \E r \in ReqIds : ConfirmRollback(r)
  \/ \E r \in ReqIds : ConfirmUnlink(r)
  \/ \E r \in ReqIds : ConfirmRespond(r)
  \/ Sweep
  \/ Tick

NextStore ==
  \/ \E in \in Uploads : UploadRejected(in[1], in[2])
  \/ \E in \in Uploads : Upload(in[1], in[2])
  \/ \E in \in Uploads : UploadRollback(in[1], in[2])
  \/ \E in \in Uploads : ProcessUploadRejected(in[1], in[2])
  \/ \E in \in Uploads : ProcessUploadStart(in[1], in[2])
  \/ ProcessUploadCommit
  \/ ProcessUploadThrow

\* The single-step imports of bundles with attachments
NextMedia ==
  \/ \E in \in MediaUploads : Upload(in[1], in[2])
  \/ \E in \in MediaUploads : ProcessUploadStart(in[1], in[2])
  \/ ProcessUploadCommit
  \/ ProcessUploadCopyFails

\* The imports of one chat's exports, without a preview
NextNames ==
  \/ \E in \in NameUploads : Upload(in[1], in[2])
  \/ \E in \in NameUploads : ProcessUploadStart(in[1], in[2])
  \/ ProcessUploadCommit

\* The imports of one chat's exports of different times
NextCutoff ==
  \/ \E in \in CutoffUploads : Upload(in[1], in[2])
  \/ \E in \in CutoffUploads : ProcessUploadStart(in[1], in[2])
  \/ ProcessUploadCommit

\* The three requests that take a bundle in
NextIntake ==
  \/ \E in \in Stagings : UploadRejected(in[1], in[2])
  \/ \E in \in Stagings : Upload(in[1], in[2])
  \/ \E in \in Stagings : ProcessUploadRejected(in[1], in[2])
  \/ \E in \in Stagings : ProcessUploadStart(in[1], in[2])
  \/ ProcessUploadCommit
  \/ ProcessUploadThrow
  \/ \E in \in Stagings : PreviewRejected(in[1], in[2])
  \/ \E in \in Stagings : Preview(in[1], in[2])

NextMerge ==
  \/ \E u \in Users, raw \in MergeInputs : MergeRejected(u, raw)
  \/ \E u \in Users, raw \in MergeInputs : Merge(u, raw)
  \/ \E u \in Users, raw \in MergeInputs : MergeRollback(u, raw)
  \/ \E u \in Users, raw \in MergeInputs : MergeReadBackFails(u, raw)

Next == NextSession \/ NextStore \/ NextMedia \/ NextMerge \/ NextResolve \/ NextNames \/ NextCutoff

Spec == Init /\ [][Next]_vars
SpecStore == Init /\ [][NextStore]_vars
SpecSession == InitSession /\ [][NextSession]_vars
SpecResolve == InitResolve /\ [][NextResolve]_vars
SpecMerge == InitMerge /\ [][NextMerge]_vars
SpecIntake == Init /\ [][NextIntake]_vars
SpecMedia == Init /\ [][NextMedia]_vars
SpecNames == Init /\ [][NextNames]_vars
SpecCutoff == Init /\ [][NextCutoff]_vars
SpecExtract == InitExtract /\ [][NextExtract]_vars

\* The imports in which an INSERT of a message throws
NextFaults ==
  \/ \E in \in {<<"u1", BChat>>, <<"u1", BTwice>>} : Upload(in[1], in[2])
  \/ \E in \in {<<"u1", BChat>>, <<"u1", BTwice>>} : UploadRollback(in[1], in[2])
  \/ \E in \in {<<"u1", BChat>>, <<"u1", BTwice>>} : ProcessUploadStart(in[1], in[2])
  \/ ProcessUploadCommit
  \/ ProcessUploadInsertFails
  \/ ProcessUploadThrow

SpecFaults == Init /\ [][NextFaults]_vars

\* The database a confirm finds: empty, or with the chat u1's upload of b.txt
\* has made
InitConfirm ==
  /\ \E seed \in {[db |-> EmptyDB, into |-> {}]} \cup Seeds :
       /\ chats = seed.db.chats
       /\ participants = seed.db.parts
       /\ messages = seed.db.msgs
       /\ nextChatId = seed.db.nextId
       /\ imported = seed.into
  /\ previews = <<>>
  /\ files = <<>>
  /\ now = 0
  /\ NoJobs
  /\ reqs = [r \in ReqIds |-> IdleReq]
  /\ job = IdleJob
  /\ resp = NoResp
  /\ issued = <<>>
  /\ unlinkCalls = [p \in PreviewIds |-> 0]
  /\ confirmed = [p \in PreviewIds |-> 0]
  /\ reimported = {}

\* One preview of a bundle of one or two transcripts and its confirms, with
\* and without a target
NextConfirm ==
  \/ \E in \in {<<"u1", BChat>>, <<"u1", BBoth>>} : Preview(in[1], in[2])
  \/ \E r \in ReqIds, pid \in PreviewIds, t \in TargetIds :
        ConfirmAccept(r, "u1", pid, t)
  \/ \E r \in ReqIds : ConfirmLoad(r)
  \/ \E r \in ReqIds : ConfirmCommit(r)
  \/ \E r \in ReqIds : ConfirmChatNotFound(r)
  \/ \E r \in ReqIds : ConfirmUnlink(r)
  \/ \E r \in ReqIds : ConfirmRespond(r)

SpecConfirm == InitConfirm /\ [][NextConfirm]_vars

\* The database two owners act on: empty, or with the chat u2's upload of
\* s.txt has made
InitOwners ==
  /\ \E seed \in {[db |-> EmptyDB, into |-> {}],
                   UploadTransaction(EmptyDB, "u2", <<TSolo>>)} :
       /\ chats = seed.db.chats
       /\ participants = seed.db.parts
       /\ messages = seed.db.msgs
       /\ nextChatId = seed.db.nextId
       /\ imported = seed.into
  /\ previews = <<>>
  /\ files = <<>>
  /\ now = 0
  /\ NoJobs
  /\ reqs = [r \in ReqIds |-> IdleReq]
  /\ job = IdleJob
  /\ resp = NoResp
  /\ issued = <<>>
  /\ unlinkCalls = [p \in PreviewIds |-> 0]
  /\ confirmed = [p \in PreviewIds |-> 0]
  /\ reimported = {}

\* The requests of two owners that write chats: the single-step imports, the
\* merge and the deletions of both, and the per-transcript import, the preview
\* and the confirm (one at a time) of u1
NextOwners ==
  \/ \E u \in Users : Upload(u, BSolo)
  \/ ProcessUploadStart("u1", BSolo)
  \/ ProcessUploadCommit
  \/ Preview("u1", BSolo)
  \/ \E pid \in PreviewIds, t \in TargetIds : ConfirmAccept(1, "u1", pid, t)
  \/ \E r \in ReqIds : ConfirmLoad(r)
  \/ \E r \in ReqIds : ConfirmCommit(r)
  \/ \E r \in ReqIds : ConfirmChatNotFound(r)
  \/ \E r \in ReqIds : ConfirmUnlink(r)
  \/ \E r \in ReqIds : ConfirmRespond(r)
  \/ \E u \in Users : MergeRejected(u, <<1, 2>>)
  \/ \E u \in Users : Merge(u, <<1, 2>>)
  \/ \E u \in Users, id \in {1, 2} : DeleteChat(u, id)
  \/ \E u \in Users, raw \in {<<1, 2>>, <<0>>} : DeleteSelected(u, raw)

SpecOwners == InitOwners /\ [][NextOwners]_vars

\* Who starts a background import of which archive
JobInputs ==
  {<<"u1", BPhoto, 0, TRUE>>, <<"u1", BChat, 50, TRUE>>, <<"u1", BEmpty, 0, TRUE>>,
   <<"u1", BCorrupt, 0, TRUE>>, <<"u1", BPhoto, 0, FALSE>>}

\* The background imports, two at a time
NextJobs ==
  \/ \E s \in ProcSlots, in \in JobInputs : JobStart(s, in[1], in[2], in[3], in[4])
  \/ \E s \in ProcSlots : JobThrows(s)
  \/ \E s \in ProcSlots : JobExtractBatch(s)
  \/ \E s \in ProcSlots : JobParse(s)
  \/ \E s \in ProcSlots : JobTranscript(s)
  \/ \E s \in ProcSlots : JobCleanup(s)
  \/ \E s \in ProcSlots : JobReturn(s)
  \/ Tick

SpecJobs == Init /\ [][NextJobs]_vars

\* ------------------------------------------------------------------------
\* Properties

\* The parsed transcript stored under a path of a bundle
TranscriptAt(path) ==
  CHOOSE t \in {TFam, TChat, TTwice, TWork, TPhoto, TSolo, TSoloWork, TNote, TLate} : t.path = path

\* No confirm request is between its checks and its answer
NoneInFlight == \A r \in ReqIds : reqs[r].pc = "idle"

\* The step is the arrival of a confirm of session p by caller u: it is
\* answered at once, or it passes the checks and takes a slot
ConfirmArrives(u, p) ==
  \/ /\ reqs' = reqs
     /\ resp'.op = "confirm"
     /\ resp'.userId = u
     /\ resp'.previewId = p
  \/ \E r \in ReqIds : /\ reqs[r].pc = "idle"
                       /\ reqs'[r].pc # "idle"
                       /\ reqs'[r].userId = u
                       /\ reqs'[r].previewId = p

\* More than the TTL has passed since preview request p created a session
PastTTL(p) ==
  /\ p \in DOMAIN issued
  /\ issued[p].session
  /\ now - issued[p].createdAt > PREVIEW_TTL_MS

\* C1: an import that repeats an earlier import of the same transcripts into
\* the same chats adds no message, skips every message of the transcripts,
\* and leaves the stored messages unchanged.
C1_Idempotent ==
  (resp.op \in {"confirm", "upload"} /\ resp.status = 200 /\ resp.repeat)
    => /\ resp.stats.addedMessages = 0
       /\ resp.stats.skippedMessages = resp.total
       /\ ~resp.changed

\* C2: no two stored messages share (chat_id, author, timestamp,
\* content prefix), a NULL author or timestamp included.
C2_UniqueMessages ==
  \A r1 \in BagToSet(messages), r2 \in BagToSet(messages) :
    UniqueKey(r1) = UniqueKey(r2) => (r1 = r2 /\ CopiesIn(r1, messages) = 1)

\* C3: once every confirm has finished, each message of a transcript that
\* was imported more than once into a chat is stored at most once there.
C3_AtMostOnce ==
  NoneInFlight =>
    \A pr \in reimported :
      \A i \in 1..Len(TranscriptAt(pr[1]).messages) :
        CopiesIn(MessageRow(pr[2], TranscriptAt(pr[1]).messages[i]), messages) <= 1

\* C4: at most one confirm of a preview session is answered with the import's
\* stats.
C4_OneConfirmSucceeds == \A p \in PreviewIds : confirmed[p] <= 1

\* C5: when a call of the per-transcript upload is over, the transactions of
\* all transcripts of its bundle are committed, or of none.
C5_AllOrNone == job.pc = "done" => job.committed \in {0, job.total}

\* C6: a confirm whose transaction finds that targetChatId is no chat of the
\* caller is answered 404 (500 when storage itself fails) and leaves chats,
\* participants and messages as they were.
C6_TargetNotFound ==
  [][\A r \in ReqIds :
       ( /\ reqs[r].pc = "txn"
         /\ reqs[r].targetChatId # NoChatId
         /\ ~\E c \in chats : c.id = reqs[r].targetChatId /\ c.user_id = reqs[r].userId
         /\ reqs'[r] # reqs[r] )
       => /\ resp'.op = "confirm"
          /\ resp'.previewId = reqs[r].previewId
          /\ resp'.status \in {404, 500}
          /\ UNCHANGED dbVars]_vars

\* C6: a confirm by u2 that named u1's chat 1 has been answered 404 while its
\* session is still there.
C6_Witness ==
  /\ resp.op = "confirm"
  /\ resp.status = 404
  /\ resp.userId = "u2"
  /\ resp.previewId \in DOMAIN previews
  /\ \E c \in chats : c.user_id # "u2"

C8_ForeignConfirm ==
  [][\A u \in Users, p \in PreviewIds :
       (p \in DOMAIN previews /\ previews[p].userId # u /\ ConfirmArrives(u, p))
       => /\ reqs' = reqs
          /\ resp'.status = 403
          /\ UNCHANGED <<dbVars, previews, files>>]_vars

\* C8: a foreign confirm has been answered 403 and the session and the staged
\* file are still there.
C8_Witness ==
  /\ resp.op = "confirm"
  /\ resp.status = 403
  /\ resp.previewId \in DOMAIN previews
  /\ previews[resp.previewId].userId # resp.userId
  /\ previews[resp.previewId].tempPath \in DOMAIN files

\* C9: the staged file of a preview request is never unlinked twice.
C9_ReleasedOnce == \A p \in PreviewIds : unlinkCalls[p] <= 1

\* The caller's chats whose name equals nameGuess up to case and surrounding
\* whitespace
NameMatches(u, nameGuess) ==
  {c \in chats : c.user_id = u /\ NormName(c.name) = NormName(nameGuess)}

\* The resolvers were given a non-generic nameGuess that names a chat of the
\* caller
ResolvedByName ==
  /\ resp.op = "resolve"
  /\ resp.nameGuess # <<>>
  /\ ~isGenericName(resp.nameGuess)
  /\ NameMatches(resp.userId, resp.nameGuess) # {}

\* C10 as stated: a non-generic nameGuess that names a chat of the caller
\* makes the resolvers select such a chat, the suggestion with confidence 95.
C10_NameMatchAt95 ==
  ResolvedByName
    => /\ resp.suggestedChatId \in {c.id : c \in NameMatches(resp.userId, resp.nameGuess)}
       /\ resp.autoChatId \in {c.id : c \in NameMatches(resp.userId, resp.nameGuess)}
       /\ resp.confidence = 95

\* C10: a non-generic nameGuess that names a chat of the caller makes the
\* resolvers select such a chat, the suggestion with confidence 100.
C10_NameMatchAt100 ==
  ResolvedByName
    => /\ resp.suggestedChatId \in {c.id : c \in NameMatches(resp.userId, resp.nameGuess)}
       /\ resp.autoChatId \in {c.id : c \in NameMatches(resp.userId, resp.nameGuess)}
       /\ resp.confidence = 100

\* C10: chat 1 is selected by its name, written in another case and with
\* surrounding whitespace, though its participants are disjoint from the
\* transcript's and chat 2 has all of the transcript's participants.
C10_Witness ==
  /\ ResolvedByName
  /\ resp.suggestedChatId = 1
  /\ resp.autoChatId = 1
  /\ resp.nameGuess # (CHOOSE c \in chats : c.id = 1).name
  /\ PartsOfChat(participants, 1) \cap resp.participants = {}
  /\ \E c \in chats : /\ c.id = 2
                      /\ c.user_id = resp.userId
                      /\ PartsOfChat(participants, 2) = resp.participants

\* The overlap of chat c's participants with the resolved transcript's
OverlapWith(c) == participantOverlap(resp.participants, PartsOfChat(participants, c.id))

\* The caller's chats with overlap >= 0.5, and those of them no other exceeds
HalfOverlapChats ==
  {c \in chats : c.user_id = resp.userId /\ AtLeastHalf(OverlapWith(c))}
HighestOverlapIds ==
  {c.id : c \in {x \in HalfOverlapChats :
                   \A d \in HalfOverlapChats : ~RatioGt(OverlapWith(d), OverlapWith(x))}}

\* C11: when no chat of the caller matches by name and some chat has overlap
\* >= 0.5, both resolvers select a chat with the highest overlap.
C11_HighestOverlap ==
  (resp.op = "resolve" /\ NameMatches(resp.userId, resp.nameGuess) = {}
     /\ HalfOverlapChats # {})
    => /\ resp.autoChatId \in HighestOverlapIds
       /\ resp.suggestedChatId \in HighestOverlapIds

\* The participants of the caller's chat id, and the size of the smaller of
\* two sets
ResolvedParts(id) == {r.name : r \in {x \in participants : x.chat_id = id}}
Smaller(A, B) == IF Cardinality(A) <= Cardinality(B) THEN Cardinality(A) ELSE Cardinality(B)

\* C12: the overlap the resolver computed for each chat is the same with the
\* arguments exchanged, is 1 when both sets are empty, 0 when exactly one is,
\* |A \cap B| / min(|A|, |B|) otherwise, and lies in [0, 1].
C12_OverlapLaws ==
  resp.op = "resolve" =>
    \A id \in DOMAIN resp.overlaps :
      LET A == resp.participants
          B == ResolvedParts(id)
          o == resp.overlaps[id]
          back == participantOverlap(B, A)
      IN /\ o.num * back.den = back.num * o.den
         /\ o.den > 0 /\ 0 <= o.num /\ o.num <= o.den
         /\ (A = {} /\ B = {}) => o.num = o.den
         /\ ((A = {}) # (B = {})) => o.num = 0
         /\ (A # {} /\ B # {}) =>
              o.num * Smaller(A, B) = Cardinality(A \cap B) * o.den

\* C12: overlaps were computed for a chat without participants and a chat
\* with some, against a transcript without participants, and for two sets
\* of different sizes that share a member.
C12_Witness ==
  /\ resp.op = "resolve"
  /\ \/ /\ resp.participants = {}
        /\ \E i \in DOMAIN resp.overlaps : ResolvedParts(i) = {} /\ resp.overlaps[i].num = 1
        /\ \E j \in DOMAIN resp.overlaps : ResolvedParts(j) # {} /\ resp.overlaps[j].num = 0
     \/ /\ resp.participants = {"b"}
        /\ \E i \in DOMAIN resp.overlaps :
             ResolvedParts(i) = {"a", "b"} /\ resp.overlaps[i].num = resp.overlaps[i].den


\* ------------------------------------------------------------------------
\* Merge

\* The sum of F over the finite set S
SumOver(S, F(_)) ==
  LET RECURSIVE Sum(_)
      Sum(T) == IF T = {} THEN 0
                ELSE LET x == CHOOSE y \in T : TRUE IN F(x) + Sum(T \ {x})
  IN Sum(S)

\* What the uniqueness rule compares of a message, apart from its chat
MessageKey(r) == <<r.author, r.timestamp, r.content.p>>

\* How many rows of chat c carry key k
CopiesOfKey(msgs, c, k) ==
  LET rows == {r \in BagToSet(msgs) : r.chat_id = c /\ MessageKey(r) = k}
  IN SumOver(rows, LAMBDA r : CopiesIn(r, msgs))

\* The messages of the chats ids counted once per message: a message several
\* of the chats hold counts as often as the chat holding it most often
MergedCount(msgs, ids) ==
  LET keys == {MessageKey(r) : r \in {x \in BagToSet(msgs) : x.chat_id \in ids}}
  IN SumOver(keys, LAMBDA k : Max({CopiesOfKey(msgs, c, k) : c \in ids}))

\* The ids of a merge request that was answered
MergedIds == {resp.chatIds[i] : i \in DOMAIN resp.chatIds}

\* C13, structure: after a successful merge the target is the one chat of the
\* request that is left, and no participant or message row of another chat
\* of the request is left; the chats outside the request keep their rows.
MergeLeavesTarget ==
  (resp'.op = "merge" /\ resp'.status = 200) =>
    LET ids == {resp'.chatIds[i] : i \in DOMAIN resp'.chatIds}
        t == resp'.mergedChatId
    IN /\ t \in ids
       /\ {c.id : c \in chats'} = {c.id : c \in chats} \ (ids \ {t})
       /\ \A r \in participants' : r.chat_id \notin (ids \ {t})
       /\ \A r \in BagToSet(messages') : r.chat_id \notin (ids \ {t})
       /\ \A c \in chats : c.id \notin ids =>
            /\ c \in chats'
            /\ PartsOfChat(participants', c.id) = PartsOfChat(participants, c.id)
            /\ RowsOfChat(messages', c.id) = RowsOfChat(messages, c.id)

\* C13, accounting: movedMessages + skippedDuplicates is the number of
\* messages the source chats held, and the target has gained movedMessages.
MergeCounts ==
  (resp'.op = "merge" /\ resp'.status = 200) =>
    LET ids == {resp'.chatIds[i] : i \in DOMAIN resp'.chatIds}
        t == resp'.mergedChatId
    IN /\ resp'.movedMessages + resp'.skippedDuplicates
            = SumOver(ids \ {t}, LAMBDA c : CountIn(messages, c))
       /\ CountIn(messages', t) = CountIn(messages, t) + resp'.movedMessages
       /\ resp'.messageCount = CountIn(messages', t)

\* C13, duplicates: the target ends with the candidates' messages counted
\* once each, that is the sum of their counts minus the cross-chat duplicates.
MergeDropsDuplicates ==
  (resp'.op = "merge" /\ resp'.status = 200) =>
    LET ids == {resp'.chatIds[i] : i \in DOMAIN resp'.chatIds}
    IN CountIn(messages', resp'.mergedChatId) = MergedCount(messages, ids)

\* C13: a successful merge leaves exactly the target of the merged chats,
\* deletes every other one with its messages and participant rows, and the
\* target's message count is the sum of the candidates' counts minus the
\* cross-chat duplicates, with movedMessages + skippedDuplicates the number
\* of messages of the source chats.
C13_MergeResult == [][MergeLeavesTarget /\ MergeCounts /\ MergeDropsDuplicates]_vars
C13_Structure == [][MergeLeavesTarget /\ MergeCounts]_vars


\* The chats of the request answered in this step that are not the caller's:
\* ids that no chat has, or that a chat of another owner has
NotOwnedIds ==
  {resp'.chatIds[i] : i \in DOMAIN resp'.chatIds}
    \ {c.id : c \in {d \in chats : d.user_id = resp'.userId}}

\* C14: a merge request of two or more ids of which one is missing or is the
\* chat of another owner is answered 404 and no chat, participant or message
\* row changes.
C14_MergeNotFound ==
  [][(resp'.op = "merge" /\ Len(resp'.chatIds) >= 2 /\ NotOwnedIds # {})
       => (resp'.status = 404 /\ UNCHANGED dbVars)]_vars

\* A merge that named a chat of another owner was answered 404
C14_Witness ==
  /\ resp.op = "merge"
  /\ resp.status = 404
  /\ \E c \in chats : c.id \in MergedIds /\ c.user_id # resp.userId

\* Every chat that this step deleted was in the request, one chat of the
\* request is left, and it holds each message of the deleted chats
MergeComplete ==
  LET ids == {resp'.chatIds[i] : i \in DOMAIN resp'.chatIds}
      gone == {c.id : c \in chats} \ {c.id : c \in chats'}
      left == ids \cap {c.id : c \in chats'}
  IN /\ gone = ids \ left
     /\ Cardinality(left) = 1
     /\ \A r \in BagToSet(messages) : r.chat_id \in gone =>
          \E q \in BagToSet(messages') :
            q.chat_id \in left /\ MessageKey(q) = MessageKey(r)
     /\ \A r \in participants : r.chat_id \in gone =>
          \E q \in participants' : q.chat_id \in left /\ q.name = r.name

\* C15: a merge is one transaction: a merge step leaves the chats,
\* participants and messages exactly as they were (a failed step rolled
\* back), or it is the whole merge; no step deletes a source chat without
\* its messages being in the target.
C15_MergeAtomic ==
  [][resp'.op = "merge" => (UNCHANGED dbVars \/ MergeComplete)]_vars

\* A merge of the caller's own chats failed and every chat of the request is
\* still there
C15_Witness ==
  /\ resp.op = "merge"
  /\ resp.status = 500
  /\ Len(resp.chatIds) >= 2
  /\ \A id \in MergedIds : \E c \in chats : c.id = id /\ c.user_id = resp.userId


\* ------------------------------------------------------------------------
\* Import accounting

\* The single-step upload (one INSERT per message, as in confirm) answered 200
PerRowImportDone == resp.op = "upload" /\ resp.status = 200

\* processUpload (batchInsertMessages) has returned its stats
BatchImportDone == job.pc = "done" /\ job.status = 200

\* C17, per-row variant: addedMessages + skippedMessages is the number of
\* parsed messages of the bundle.
C17_PerRowAccounting ==
  PerRowImportDone
    => resp.stats.addedMessages + resp.stats.skippedMessages = resp.total

\* C17: after every successful import addedMessages + skippedMessages equals
\* the number of parsed messages over all transcripts of the bundle, in the
\* per-row variant and in the batch-insert variant.
C17_SkipAccounting ==
  /\ C17_PerRowAccounting
  /\ BatchImportDone
       => job.stats.addedMessages + job.stats.skippedMessages = job.parsed


\* ------------------------------------------------------------------------
\* Bundles that cannot be imported

\* The request answered in this step brought a bundle that cannot be read or
\* that holds no transcript
BadBundleAnswered ==
  /\ resp'.op \in {"upload", "preview"}
  /\ ~resp'.readable \/ resp'.transcripts = 0

\* A background import of such a bundle was started in this step
BadBundleJob ==
  /\ job.pc \in {"idle", "done"}
  /\ job'.pc \in {"run", "done"}
  /\ resp'.op = "none"
  /\ ~job'.readable \/ job'.total = 0

\* C18: an upload, a preview or a background import of a bundle that cannot
\* be read or holds no transcript fails, no chat, participant or message row
\* is created or changed, and no preview session is created.
C18_BadBundle ==
  [][/\ BadBundleAnswered =>
          (resp'.status \in {400, 500} /\ UNCHANGED <<dbVars, sessVars>>)
     /\ BadBundleJob =>
          (job'.pc = "done" /\ job'.status = 500 /\ UNCHANGED <<dbVars, sessVars>>)]_vars

\* A preview of an unreadable bundle was answered after earlier imports had
\* filled the database
C18_Witness ==
  /\ resp.op = "preview"
  /\ ~resp.readable
  /\ resp.status = 500
  /\ chats # {}


\* ------------------------------------------------------------------------
\* The sweep and the confirms in flight

\* A confirm of session p has passed its lookup and expiry check and has not
\* answered yet
InFlight(p) == \E r \in ReqIds : reqs[r].pc # "idle" /\ reqs[r].previewId = p

\* This step is the sweep taking session p away: the entry goes although no
\* request acts
SweepRemoves(p) ==
  /\ p \in DOMAIN previews
  /\ p \notin DOMAIN previews'
  /\ reqs' = reqs
  /\ resp'.op = "none"

\* C19: the sweep never deletes the entry or unlinks the staged bundle of a
\* session while a confirm of it is in flight (the confirm has taken the
\* session out of the sweep's reach when it started to use it).
C19_NoSweepRace ==
  [][\A p \in PreviewIds : SweepRemoves(p) => ~InFlight(p)]_vars


\* What a confirm of a destroyed session p does: it is answered "not found"
\* at once and leaves no entry and no staged file of p
AsIfDestroyed(p) ==
  /\ reqs' = reqs
  /\ resp'.status = 404
  /\ p \notin DOMAIN previews'
  /\ p \notin DOMAIN files'
  /\ UNCHANGED dbVars

\* C20, for the owner and the stored state only: after the owner's confirm of
\* a session past its TTL neither the entry nor the staged file is left,
\* swept or not.
C20_OwnerLeavesNothing ==
  [][\A p \in PreviewIds :
       (PastTTL(p) /\ ConfirmArrives(issued[p].userId, p))
       => (reqs' = reqs /\ p \notin DOMAIN previews' /\ p \notin DOMAIN files'
             /\ UNCHANGED dbVars)]_vars

\* C20: a confirm of a session past its TTL has the outcome of a confirm of
\* a destroyed session (the same error signal, the same store and file state
\* afterwards), whether or not the sweep has removed the session.
C20_ExpiredAsDestroyed ==
  [][\A p \in PreviewIds, u \in Users :
       (PastTTL(p) /\ ConfirmArrives(u, p)) => AsIfDestroyed(p)]_vars

\* C20 without the error signal: the store and file state after a confirm of
\* a session past its TTL are those of a destroyed session, for every caller.
C20_StateAsDestroyed ==
  [][\A p \in PreviewIds, u \in Users :
       (PastTTL(p) /\ ConfirmArrives(u, p))
       => (p \notin DOMAIN previews' /\ p \notin DOMAIN files')]_vars


\* ------------------------------------------------------------------------
\* Attachments

\* The rows this step stored
StoredNow == {r \in BagToSet(messages') : CopiesIn(r, messages') > CopiesIn(r, messages)}

\* C16, per-row variant: when saving an attachment fails the import answers
\* 200 and none of the rows it stored refers to the failed file.
C16_PerRowMedia ==
  [][(resp'.op = "upload" /\ resp'.mediaFailed # {})
       => /\ resp'.status = 200
          /\ \A r \in StoredNow : r.media_path \notin resp'.mediaFailed]_vars

\* C16, unmatched file: wherever p.txt was imported, its message naming a
\* file that the bundle does not hold is stored without a media reference.
C16_UnmatchedStored ==
  \A c \in 1..MaxChats :
    (<<"p.txt", c>> \in imported) =>
       \E r \in BagToSet(messages) :
         /\ r.chat_id = c
         /\ r.author = "d"
         /\ r.content = Yo
         /\ r.media_path = NoMedia

\* C16: a message whose attachment matches no entry of the Media Index, or
\* whose media file cannot be written, is still inserted without a media
\* reference and the import commits: in the per-row imports and in the batch
\* import (the iteration in which a copy fails commits its transcript).
C16_MediaNeverBlocks ==
  [][/\ (resp'.op = "upload" /\ resp'.mediaFailed # {})
          => /\ resp'.status = 200
             /\ \A r \in StoredNow : r.media_path \notin resp'.mediaFailed
     /\ C16_UnmatchedStored'
     /\ (job'.mediaFailed # {} /\ job.mediaFailed = {})
          => (job'.status # 500 /\ job'.committed = job.committed + 1)]_vars

\* ------------------------------------------------------------------------
\* The resolvers were given an absent or generic nameGuess
ResolvedGeneric ==
  /\ resp.op = "resolve"
  /\ (resp.nameGuess = <<>> \/ NormName(resp.nameGuess) \in GENERIC_NAMES)

\* The chat with this id has a nonzero overlap with the transcript, so that
\* the overlap step or the generic-name fallback can have selected it
HasOverlap(id) == Positive(resp.overlaps[id])

\* C21: with an absent or generic nameGuess no chat is selected or suggested
\* by its name: the chat the preview suggests and the chat the single-step
\* upload selects, if any, have a nonzero overlap with the transcript (they
\* matched through overlap or the generic-name fallback).
C21_GenericNeverNameMatches ==
  ResolvedGeneric
    => /\ resp.suggestedChatId # NoChatId => HasOverlap(resp.suggestedChatId)
       /\ resp.autoChatId # NoChatId => HasOverlap(resp.autoChatId)

\* The caller's generic-named chats that have a nonzero overlap with the
\* transcript, and the first of them in id order
GenericOverlapChats ==
  {c \in chats : /\ c.user_id = resp.userId
                 /\ NormName(c.name) \in GENERIC_NAMES
                 /\ Positive(OverlapWith(c))}
FirstGenericChat ==
  CHOOSE c \in GenericOverlapChats : \A d \in GenericOverlapChats : c.id <= d.id

\* Neither the name step nor the overlap >= 0.5 step has a chat to select
FallbackCase ==
  /\ resp.op = "resolve"
  /\ NameMatches(resp.userId, resp.nameGuess) = {}
  /\ HalfOverlapChats = {}

\* C22: when no chat matches by name and none has overlap >= 0.5, both
\* resolvers select the first generic-named chat with nonzero overlap, the
\* suggestion with confidence round(overlap x 70); when there is none, no chat
\* is selected and no confidence is reported.
C22_GenericFallback ==
  FallbackCase
    => IF GenericOverlapChats = {}
       THEN /\ resp.suggestedChatId = NoChatId
            /\ resp.autoChatId = NoChatId
            /\ resp.confidence = 0
       ELSE /\ resp.suggestedChatId = FirstGenericChat.id
            /\ resp.autoChatId = FirstGenericChat.id
            /\ resp.confidence = RoundScaled(OverlapWith(FirstGenericChat), 70)

\* C22, the selection alone: in that case the preview suggests the first
\* generic-named chat with nonzero overlap, as the single-step upload does.
C22_FirstGenericSuggested ==
  (FallbackCase /\ GenericOverlapChats # {})
    => resp.suggestedChatId = FirstGenericChat.id

\* C22, the single-step upload alone: it selects the first generic-named chat
\* with nonzero overlap, and none when there is none.
C22_AutoFirstGeneric ==
  FallbackCase
    => resp.autoChatId = (IF GenericOverlapChats = {} THEN NoChatId
                          ELSE FirstGenericChat.id)

\* The preview suggests a chat through the participant-overlap step: the
\* suggested chat does not match by name and its overlap is >= 0.5
SuggestedByOverlap ==
  /\ resp.op = "resolve"
  /\ resp.suggestedChatId # NoChatId
  /\ resp.suggestedChatId \notin {c.id : c \in NameMatches(resp.userId, resp.nameGuess)}
  /\ AtLeastHalf(resp.overlaps[resp.suggestedChatId])

\* n is overlap x k rounded to the nearest integer, a half rounded up
IsRounded(n, o, k) ==
  /\ 2 * o.den * n <= 2 * k * o.num + o.den
  /\ 2 * o.den * n > 2 * k * o.num - o.den

\* C23 as stated: a chat suggested through the overlap step is reported with
\* confidence round(overlap x 100), between 50 and 100.
C23_OverlapAt100 ==
  SuggestedByOverlap
    => /\ IsRounded(resp.confidence, resp.overlaps[resp.suggestedChatId], 100)
       /\ resp.confidence >= 50
       /\ resp.confidence <= 100

\* C23: a chat suggested through the overlap step is reported with confidence
\* round(overlap x 80), between 40 and 80.
C23_OverlapAt80 ==
  SuggestedByOverlap
    => /\ IsRounded(resp.confidence, resp.overlaps[resp.suggestedChatId], 80)
       /\ resp.confidence >= 40
       /\ resp.confidence <= 80

\* C23: a chat is suggested through the overlap step with an overlap of 8/15,
\* which is reported as 43
C23_Witness ==
  /\ SuggestedByOverlap
  /\ resp.overlaps[resp.suggestedChatId].num * 15 = resp.overlaps[resp.suggestedChatId].den * 8
  /\ resp.confidence = 43

\* C24: a preview request leaves every chat, participant and message row
\* unchanged; it adds nothing, or one preview session and the staged bundle
\* that session holds.
C24_PreviewReadOnly ==
  [][resp'.op = "preview"
       => /\ chats' = chats
          /\ participants' = participants
          /\ messages' = messages
          /\ nextChatId' = nextChatId
          /\ \/ /\ previews' = previews
                /\ files' = files
             \/ \E p \in PreviewIds \ DOMAIN previews :
                  /\ DOMAIN previews' = DOMAIN previews \cup {p}
                  /\ \A q \in DOMAIN previews : previews'[q] = previews[q]
                  /\ previews'[p].tempPath = p
                  /\ DOMAIN files' = DOMAIN files \cup {p}
                  /\ \A q \in DOMAIN files \ {p} : files'[q] = files[q]]_vars

\* C24: a preview was answered with a suggested chat found among the stored
\* chats, and its session is stored
C24_Witness ==
  /\ resp.op = "preview"
  /\ resp.status = 200
  /\ resp.suggestedChatId \in {c.id : c \in chats}
  /\ DOMAIN previews # {}
  /\ BagCardinality(messages) > 0

\* The name of the stored chat with this id
NameOf(chatRows, id) == (CHOOSE c \in chatRows : c.id = id).name

\* The name a chat has after a transcript with this nameGuess was merged into
\* it: the nameGuess when it is present, non-generic and another name
NameRule(id, nameGuess) ==
  NameOf(chats', id) =
    IF /\ nameGuess # <<>>
       /\ NormName(nameGuess) \notin GENERIC_NAMES
       /\ nameGuess # NameOf(chats, id)
    THEN nameGuess
    ELSE NameOf(chats, id)

\* The caller's chats whose participant set is that of the transcript, which
\* is what the per-transcript upload merges into
SameParticipantIds(u, parsed) ==
  {c.id : c \in {x \in chats : /\ x.user_id = u
                               /\ ResolvedParts(x.id) = parsed.participants}}

\* the per-transcript upload commits a transcript into an existing chat
ProcessUploadMerges ==
  /\ ProcessUploadCommit
  /\ SameParticipantIds(job.userId, Head(job.txtFiles)) # {}

\* the single-step upload of a bundle with one transcript, into an existing
\* chat
UploadMerges(u, b) ==
  /\ Len(b.txtFiles) = 1
  /\ Upload(u, b)
  /\ AutoFind(chats, participants, u, b.txtFiles[1].nameGuess,
              b.txtFiles[1].participants) # NoChatId

\* C25, the single-step upload: a transcript merged into an existing chat
\* leaves the chat named by its nameGuess when that is present, non-generic
\* and another name, and leaves the name alone otherwise.
C25_UploadRenames ==
  [][\A in \in NameUploads :
       UploadMerges(in[1], in[2])
         => NameRule(AutoFind(chats, participants, in[1], in[2].txtFiles[1].nameGuess,
                              in[2].txtFiles[1].participants),
                     in[2].txtFiles[1].nameGuess)]_vars

\* C25, several transcripts in one call: after the single-step upload of
\* s.txt and v.txt into u1's only chat, the chat has the nameGuess of v.txt.
C25_LastNameWins ==
  [][(Upload("u1", BRenames) /\ {c.id : c \in {x \in chats : x.user_id = "u1"}} = {1})
       => NameOf(chats', 1) = TSoloWork.nameGuess]_vars

\* C25: a transcript merged into an existing chat, by the single-step upload
\* or by the per-transcript upload, leaves the chat named by its nameGuess
\* when that is present, non-generic and another name, and leaves the name
\* alone otherwise.
C25_NameAfterImport ==
  [][/\ \A in \in NameUploads :
          UploadMerges(in[1], in[2])
            => NameRule(AutoFind(chats, participants, in[1], in[2].txtFiles[1].nameGuess,
                                 in[2].txtFiles[1].participants),
                        in[2].txtFiles[1].nameGuess)
     /\ ProcessUploadMerges
          => \A id \in SameParticipantIds(job.userId, Head(job.txtFiles)) :
               (\A other \in SameParticipantIds(job.userId, Head(job.txtFiles)) : id <= other)
                 => NameRule(id, Head(job.txtFiles).nameGuess)]_vars

\* The names stored for a chat in rows of chat_participants
PartNames(rows, id) == {r.name : r \in {x \in rows : x.chat_id = id}}

\* The participants of the transcripts that this step imported into the chat
ImportedParticipants(id) ==
  UNION {TranscriptAt(pr[1]).participants :
           pr \in {x \in (imported' \ imported) \cup (reimported' \ reimported) : x[2] = id}}

\* C26: every step leaves the participant set of each existing chat equal to
\* the union of its previous set and the participants of the transcripts the
\* step imported into it, so that no step removes a participant.
C26_ParticipantsGrow ==
  [][\A c \in chats :
       PartNames(participants', c.id)
         = PartNames(participants, c.id) \cup ImportedParticipants(c.id)]_vars

\* C26: a single-step upload added no chat, and the only chat there is holds
\* s.txt and v.txt and has the participants of both: v.txt was merged into a
\* chat that had {b} and now has {b, c}
C26_Witness ==
  /\ resp.op = "upload"
  /\ resp.status = 200
  /\ resp.stats.addedChats = 0
  /\ resp.stats.updatedChats = Len(BRenames.txtFiles)
  /\ Cardinality(chats) = 1
  /\ \A c \in chats : /\ <<TSolo.path, c.id>> \in imported
                      /\ <<TSoloWork.path, c.id>> \in imported
                      /\ PartNames(participants, c.id) = TSolo.participants \cup TSoloWork.participants
                      /\ TSolo.participants # PartNames(participants, c.id)

\* The stored timestamps of a chat (none for a chat that is yet to be made)
StoredTimes(id) ==
  {r.timestamp : r \in {x \in BagToSet(messages) :
                          x.chat_id = id /\ x.timestamp # SqlNullTime}}

\* A parsed message is let through into chat id: it has no timestamp, or a
\* timestamp after every stored one
PassesCutoff(m, id) ==
  \/ m.timestamp = NoTimestamp
  \/ \A t \in StoredTimes(id) : m.timestamp > t

\* What the import of a transcript into chat id does to the rows of its
\* messages: a message that is let through is stored afterwards (once more
\* if it has no timestamp, which no stored row can conflict with), and the
\* rows of a message that is filtered out are as many as before
CutoffRule(parsed, id) ==
  \A k \in 1..Len(parsed.messages) :
    LET m == parsed.messages[k]
        row == MessageRow(id, m)
    IN IF PassesCutoff(m, id)
       THEN /\ CopiesIn(row, messages') >= 1
            /\ m.timestamp = NoTimestamp => CopiesIn(row, messages') > CopiesIn(row, messages)
       ELSE CopiesIn(row, messages') = CopiesIn(row, messages)

\* The number of messages of a transcript that are filtered out
FilteredOut(parsed, id) ==
  Cardinality({k \in 1..Len(parsed.messages) : ~PassesCutoff(parsed.messages[k], id)})

\* The chat a transcript goes into: the existing chat the import selects, or
\* the chat it makes
UploadTarget(u, parsed) ==
  LET found == AutoFind(chats, participants, u, parsed.nameGuess, parsed.participants)
  IN IF found # NoChatId THEN found ELSE nextChatId
ProcessUploadTarget(u, parsed) ==
  LET same == SameParticipantIds(u, parsed)
  IN IF same # {} THEN CHOOSE id \in same : \A other \in same : id <= other
     ELSE nextChatId

\* C27: an import into an existing chat passes to insertion exactly the
\* parsed messages without timestamp or with a timestamp strictly after the
\* chat's latest stored one (a message at that time is filtered out); into a
\* new chat, or one without a timestamped message, it passes every message.
\* The per-transcript upload counts exactly the filtered-out messages as
\* skipped, the single-step upload at least those.
C27_TimestampCutoff ==
  [][/\ \A in \in CutoffUploads :
          Upload(in[1], in[2])
            => /\ CutoffRule(in[2].txtFiles[1], UploadTarget(in[1], in[2].txtFiles[1]))
               /\ resp'.stats.skippedMessages
                    >= FilteredOut(in[2].txtFiles[1], UploadTarget(in[1], in[2].txtFiles[1]))
     /\ ProcessUploadCommit
          => /\ CutoffRule(Head(job.txtFiles),
                           ProcessUploadTarget(job.userId, Head(job.txtFiles)))
             /\ job'.stats.skippedMessages - job.stats.skippedMessages
                  = FilteredOut(Head(job.txtFiles),
                                ProcessUploadTarget(job.userId, Head(job.txtFiles)))]_vars

\* C27: the per-transcript upload has just filtered out the one message of
\* l.txt, which has the time of the chat's latest message and is not stored;
\* the chat also holds the messages of s.txt (time 1) and b.txt (time 2), and
\* the note without timestamp was imported into it
C27_Witness ==
  /\ job.pc = "done"
  /\ job.status = 200
  /\ job.stats.skippedMessages = Len(TLate.messages)
  /\ job.stats.addedMessages = 0
  /\ <<TLate.path, 1>> \in imported
  /\ MessageRow(1, TLate.messages[1]) \notin BagToSet(messages)
  /\ MessageRow(1, TChat.messages[1]) \in BagToSet(messages)
  /\ MessageRow(1, TSolo.messages[1]) \in BagToSet(messages)
  /\ <<TNote.path, 1>> \in imported

\* The number of message rows a chat holds before the step
MessagesOf(id) ==
  SumOver({r \in BagToSet(messages) : r.chat_id = id}, LAMBDA r : CopiesIn(r, messages))

\* C28: the target of a successful merge is a chat of the request that holds
\* the most messages, and every chat named before it in the request holds
\* fewer.
C28_MergeTarget ==
  [][(resp'.op = "merge" /\ resp'.status = 200)
       => \E i \in DOMAIN resp'.chatIds :
            /\ resp'.mergedChatId = resp'.chatIds[i]
            /\ \A j \in DOMAIN resp'.chatIds :
                 MessagesOf(resp'.chatIds[j]) <= MessagesOf(resp'.chatIds[i])
            /\ \A j \in 1..(i - 1) :
                 MessagesOf(resp'.chatIds[j]) < MessagesOf(resp'.chatIds[i])]_vars

\* C28: two chats with as many messages each were merged, and the target is
\* the one named first, which has the higher id
C28_Witness ==
  /\ resp.op = "merge"
  /\ resp.status = 200
  /\ Len(resp.chatIds) = 2
  /\ resp.mergedChatId = resp.chatIds[1]
  /\ resp.chatIds[1] > resp.chatIds[2]
  /\ resp.messageCount - resp.movedMessages = resp.movedMessages + resp.skippedDuplicates

\* The places in the request of the chats whose stored name is not generic
\* and not empty
ProperlyNamed(ids) ==
  {i \in DOMAIN ids : LET name == NameOf(chats, ids[i])
                      IN name # <<>> /\ NormName(name) \notin (GENERIC_NAMES \cup {<<>>})}

\* C29: after a successful merge the target has the name of the first chat of
\* the request, in the order the ids were supplied, whose name is not
\* generic; if there is none, the target keeps its name.
C29_MergeName ==
  [][(resp'.op = "merge" /\ resp'.status = 200)
       => LET ids == resp'.chatIds
              named == ProperlyNamed(ids)
          IN NameOf(chats', resp'.mergedChatId)
               = IF named = {} THEN NameOf(chats, resp'.mergedChatId)
                 ELSE NameOf(chats, ids[CHOOSE i \in named : \A j \in named : i <= j])]_vars

\* C29, in the order of the ids: after a successful merge the target has the
\* name of the chat with the lowest id among the chats of the request whose
\* name is not generic; if there is none, the target keeps its name.
C29_MergeNameByRowOrder ==
  [][(resp'.op = "merge" /\ resp'.status = 200)
       => LET ids == resp'.chatIds
              named == {ids[i] : i \in ProperlyNamed(ids)}
          IN NameOf(chats', resp'.mergedChatId)
               = IF named = {} THEN NameOf(chats, resp'.mergedChatId)
                 ELSE NameOf(chats, CHOOSE a \in named : \A b \in named : a <= b)]_vars

\* ------------------------------------------------------------------------
\* Extraction

\* The Media Index an extraction of the staged file returns when the entries
\* in job.mediaFailed fail: a key for every other media entry, the basename
\* for the in-memory ingestor and the whole path for the staged ones
IndexWithoutFailed(p) ==
  {IF resp.op = "extractZipMeta" THEN Basename(toLowerCase(n)) ELSE toLowerCase(n) :
     n \in MediaNames(files[p].entries) \ job.mediaFailed}

\* The extraction returned every transcript and every media entry but the
\* failed ones
ExtractionComplete(p) ==
  /\ job.readable
  /\ {job.txtFiles[i] : i \in DOMAIN job.txtFiles} = TxtNames(files[p].entries)
  /\ Len(job.txtFiles) = Cardinality(TxtNames(files[p].entries))
  /\ {job.filesMap[i] : i \in DOMAIN job.filesMap} = IndexWithoutFailed(p)

\* C30: when a media entry fails, each of the three ingestors still returns
\* every transcript and every other media entry.
C30_IndependentEntries ==
  \A p \in PreviewIds :
    (job.pc = "extracted" /\ job.mediaFailed # {}) => ExtractionComplete(p)

\* C30, the in-memory ingestor alone: extractZipMeta returns every transcript
\* and every media entry but the failed ones.
C30_InMemoryIndependent ==
  \A p \in PreviewIds :
    (job.pc = "extracted" /\ resp.op = "extractZipMeta") => ExtractionComplete(p)

\* C30: no media entry fails: each ingestor returns every transcript and every
\* media entry.
C30_NoFailureComplete ==
  \A p \in PreviewIds :
    (job.pc = "extracted" /\ job.mediaFailed = {}) => ExtractionComplete(p)

\* ------------------------------------------------------------------------
\* Release of resources

\* C31: when a synchronous upload has answered (the single-step upload) or
\* returned (the per-transcript upload), its uploaded temporary file is
\* removed, whatever the outcome.
C31_TempFileReleased ==
  /\ resp.op = "upload" => resp.tempFile = "removed"
  /\ job.pc = "done" => job.tempFile = "removed"

\* C31, the per-transcript upload alone: processUpload unlinks the uploaded
\* file in its finally block on every outcome.
C31_ProcessUploadReleases ==
  job.pc = "done" => job.tempFile = "removed"

\* C31, the single-step upload: it removes the uploaded file exactly when it
\* answers 200.
C31_UploadReleasesOnSuccess ==
  resp.op = "upload" => (resp.tempFile = "removed" <=> resp.status = 200)

\* C32: a step of an import in which the INSERT of a message throws an error
\* other than a uniqueness conflict changes no chat, participant or message
\* row and ends the call with a failure.
C32_StorageFailureRollsBack ==
  [][ /\ job'.dropped > job.dropped => (UNCHANGED dbVars /\ job'.status = 500)
      /\ \A b \in {BChat, BTwice} :
           UploadRollback("u1", b) => (UNCHANGED dbVars /\ resp'.status = 500) ]_vars

\* C32, the single-step upload alone: the throw of an INSERT reaches the catch
\* that rolls back, and the answer is 500.
C32_UploadRollsBack ==
  [][ \A b \in {BChat, BTwice} :
        UploadRollback("u1", b) => (UNCHANGED dbVars /\ resp'.status = 500) ]_vars

\* C32: a uniqueness conflict is counted as a skip and the upload answers 200.
C32_ConflictIsSkip ==
  [][ Upload("u1", BTwice) =>
        (resp'.status = 200 /\ resp'.stats.skippedMessages >= 1) ]_vars

\* ------------------------------------------------------------------------
\* The status record of a background import

\* The place of a stage in the progression ('starting' is the queued stage,
\* 'processing_chats' the importing one)
StageRank(stage) ==
  CASE stage = "starting" -> 0
    [] stage = "extracting" -> 1
    [] stage = "parsing" -> 2
    [] stage = "processing_chats" -> 3
    [] OTHER -> 4

\* The calls that run under a processId
CallsOf(processId) == {s \in ProcSlots : procs[s].processId = processId}

\* The step leaves the record of processId to one call
OwnRecord(processId) ==
  /\ processId \in DOMAIN processingStatus
  /\ Cardinality(CallsOf(processId)) = 1
  /\ Cardinality(CallsOf(processId))' = 1

\* The record of a call that has finished
Settled(s) ==
  /\ procs[s].pc \in {"cleanup", "done", "returned"}
  /\ procs[s].processId \in DOMAIN processingStatus

\* C33: the stage of a job's record never moves backward, and the record of
\* a finished job shows the stage completed with a result, or the stage
\* failed with an error.
C33_StageProgression ==
  [][ /\ \A processId \in DOMAIN processingStatus :
           OwnRecord(processId) =>
             StageRank(processingStatus'[processId].stage)
               >= StageRank(processingStatus[processId].stage)
      /\ \A s \in ProcSlots :
           (Settled(s)' /\ Cardinality(CallsOf(procs[s].processId))' = 1) =>
             LET record == processingStatus'[procs'[s].processId]
             IN \/ record.stage = "completed" /\ record.status = "completed"
                \/ record.stage = "failed" /\ record.error ]_vars

\* C33, the progression alone: the stage of a record that one call writes
\* never moves backward.
C33_StageForward ==
  [][ \A processId \in DOMAIN processingStatus :
        OwnRecord(processId) =>
          StageRank(processingStatus'[processId].stage)
            >= StageRank(processingStatus[processId].stage) ]_vars

\* C33, the end of a job by its status: the record of a finished call is
\* completed at the stage completed, or in error at the stage it had reached.
C33_SettledByStatus ==
  \A s \in ProcSlots :
    (Settled(s) /\ Cardinality(CallsOf(procs[s].processId)) = 1) =>
      LET record == processingStatus[procs[s].processId]
      IN \/ record.status = "completed" /\ record.stage = "completed" /\ ~record.error
         \/ record.status = "error" /\ record.error
              /\ record.stage \in {"extracting", "processing_chats"}

\* The steps of one call
JobStep(s) ==
  JobThrows(s) \/ JobExtractBatch(s) \/ JobParse(s) \/ JobTranscript(s)
    \/ JobCleanup(s) \/ JobReturn(s)

\* Every await of a call resolves or rejects
SpecJobsFair == SpecJobs /\ \A s \in ProcSlots : WF_vars(JobStep(s))

\* C33, the liveness part: the record of every started job is eventually
\* completed or in error.
C33_EventuallySettled ==
  \A s \in ProcSlots :
    (procs[s].processId # NoProcessId) ~>
      (/\ procs[s].processId \in DOMAIN processingStatus
       /\ processingStatus[procs[s].processId].status \in {"completed", "error"})

\* ------------------------------------------------------------------------
\* Concurrent imports

\* A call that has started and not yet cleaned up
InProgress(s) == procs[s].pc \in {"failed", "extract", "import", "cleanup"}

\* C34: two imports in progress at once have distinct staging directories
\* and, in the background, distinct processIds, and the cleanup of one call
\* removes nothing from the staging directory of another call in progress.
C34_ConcurrentIsolated ==
  [][ \A s \in ProcSlots : \A t \in ProcSlots \ {s} :
        /\ (InProgress(s) /\ InProgress(t))' =>
             /\ procs'[s].tempUploadDir # procs'[t].tempUploadDir
             /\ procs'[s].processId # NoProcessId =>
                  procs'[s].processId # procs'[t].processId
        /\ (JobCleanup(s) /\ InProgress(t)) => JobStaged(t)' = JobStaged(t) ]_vars

\* C34, the imports started at different times in the background: they have
\* distinct processIds and staging directories.
C34_DistinctAtDistinctTimes ==
  \A s \in ProcSlots : \A t \in ProcSlots \ {s} :
    (/\ procs[s].processId # NoProcessId
     /\ procs[t].processId # NoProcessId
     /\ procs[s].processId[2] # procs[t].processId[2]) =>
      /\ procs[s].processId # procs[t].processId
      /\ procs[s].tempUploadDir # procs[t].tempUploadDir

\* C34: an import finds the media it staged unless another call of the same
\* staging directory has cleaned up.  This does not hold: two calls of
\* processUpload of one owner, or two background imports of one owner
\* started in the same millisecond, share the directory.
C34_StagedMediaKept ==
  \A s \in ProcSlots :
    (procs[s].pc = "import" /\ procs[s].fileIndex = 0) =>
      procs[s].filesMap = <<>> \/ JobStaged(s) # {}

\* ------------------------------------------------------------------------
\* The progress of a background import

\* a <= b, for progress values
FracLeq(a, b) == a.num * b.den <= b.num * a.den

\* The progress of a record stays within 0..100 and is 100 only at the stage
\* completed
ProgressInRange(record) ==
  /\ FracLeq(Frac(0, 1), record.progress)
  /\ FracLeq(record.progress, Frac(100, 1))
  /\ FracLeq(Frac(100, 1), record.progress) => record.stage = "completed"

\* C40: the progress of a job's record never decreases, stays within 0..100
\* and is 100 only when the stage is completed.
C40_MonotoneProgress ==
  [][ \A processId \in DOMAIN processingStatus :
        OwnRecord(processId) =>
          /\ FracLeq(processingStatus[processId].progress,
                     processingStatus'[processId].progress)
          /\ ProgressInRange(processingStatus'[processId]) ]_vars

\* C40, the range alone: every record's progress is within 0..100 and is 100
\* only at the stage completed.
C40_ProgressRange ==
  \A processId \in DOMAIN processingStatus :
    ProgressInRange(processingStatus[processId])

\* C40, for an archive of at most 50 entries: the progress of its record
\* never decreases.
C40_MonotoneUpTo50Entries ==
  [][ \A s \in ProcSlots :
        (/\ procs[s].processId # NoProcessId
         /\ OwnRecord(procs[s].processId)
         /\ procs[s].total <= 50) =>
          FracLeq(processingStatus[procs[s].processId].progress,
                  processingStatus'[procs[s].processId].progress) ]_vars

\* ------------------------------------------------------------------------
\* Preview against single-step upload

\* C35: for the same chats of the owner, nameGuess and participants, the chat
\* findMatchingSuggestions suggests is the chat autoFindOrCreateChat selects,
\* and it suggests none exactly when autoFindOrCreateChat creates a chat.
C35_PreviewAgreesWithUpload ==
  resp.op = "resolve" => resp.suggestedChatId = resp.autoChatId

\* C35, the exact-name step of a proper nameGuess: both resolvers take the
\* first chat of the owner with that name.
C35_AgreeOnProperName ==
  (/\ resp.op = "resolve"
   /\ ~isGenericName(resp.nameGuess)
   /\ NameMatches(resp.userId, resp.nameGuess) # {}) =>
    resp.suggestedChatId = resp.autoChatId

\* ------------------------------------------------------------------------
\* Retrying a confirm

\* The step answers the confirm in slot r from inside its transaction with
\* a failure
ConfirmFails(r) ==
  /\ reqs[r].pc = "txn"
  /\ reqs'[r].pc = "idle"
  /\ resp'.op = "confirm"
  /\ resp'.status \in {404, 500}

\* C36: a confirm that fails in its transaction, because the target chat is
\* not found or a statement throws, leaves the sessions and the staged files
\* as they are; a step that removes a session is the 200 or the 410 answer of
\* a confirm of that session, or the sweep of an expired session.
C36_FailedConfirmRetryable ==
  [][ /\ \A r \in ReqIds : ConfirmFails(r) => UNCHANGED sessVars
      /\ \A pid \in DOMAIN previews :
           pid \notin DOMAIN previews' =>
             \/ /\ resp'.op = "confirm"
                /\ resp'.previewId = pid
                /\ resp'.status \in {200, 410}
             \/ resp' = NoResp /\ Expired(previews[pid]) ]_vars

\* A confirm has just failed with 404 inside its transaction, and its session
\* and staged file are still there and not yet expired
C36_Witness ==
  /\ resp.op = "confirm"
  /\ resp.status = 404
  /\ resp.previewId \in DOMAIN previews
  /\ previews[resp.previewId].tempPath \in DOMAIN files
  /\ ~Expired(previews[resp.previewId])

\* ------------------------------------------------------------------------
\* The pooled connection

\* C37: a confirm, upload or merge request that has answered has called
\* conn.release() exactly once for the connection it took, and not at all if
\* it took none.
C37_ReleasedOnce ==
  resp.op \in {"confirm", "upload", "merge"} => resp.released = resp.acquired

\* C37, no leak: every request that took a connection has released it by the
\* time it answers.
C37_NeverLeaked ==
  resp.op \in {"confirm", "upload", "merge"} =>
    (resp.acquired = 1 => resp.released >= 1)

\* C37, the exits of the confirm other than the 404 of its transaction:
\* one release for the connection taken.
C37_ReleasedOnceBut404 ==
  (resp.op = "confirm" /\ ~(resp.status = 404 /\ resp.acquired = 1)) =>
    resp.released = resp.acquired

\* ------------------------------------------------------------------------
\* What a confirm creates and what it leaves alone

\* The step commits the transaction of the confirm in slot r
ConfirmCommits(r) == reqs[r].pc = "txn" /\ reqs'[r].pc = "unlink"

\* The rows of the chats in ids are the same before and after the step
RowsKept(ids) ==
  /\ {c \in chats' : c.id \in ids} = {c \in chats : c.id \in ids}
  /\ {p \in participants' : p.chat_id \in ids} = {p \in participants : p.chat_id \in ids}
  /\ \A m \in BagToSet(messages) \cup BagToSet(messages') :
       m.chat_id \in ids => CopiesIn(m, messages') = CopiesIn(m, messages)

\* C38: a confirm without a target creates one chat per transcript, reports
\* addedChats = number of transcripts and updatedChats = 0, and leaves every
\* row of the chats that existed as it was; a confirm with a target imports
\* every transcript into that chat, creates no chat and touches no other chat.
C38_ConfirmCreatesOrMerges ==
  [][ \A r \in ReqIds :
        ConfirmCommits(r) =>
          LET n == Len(reqs[r].zip)
              target == reqs[r].targetChatId
              stats == reqs'[r].stats
              existing == {c.id : c \in chats}
          IN IF target = NoChatId
             THEN /\ stats.addedChats = n
                  /\ stats.updatedChats = 0
                  /\ {c.id : c \in chats'} = existing \cup (nextChatId..(nextChatId + n - 1))
                  /\ nextChatId' = nextChatId + n
                  /\ \A c \in chats' : c.id \notin existing => c.user_id = reqs[r].userId
                  /\ RowsKept(existing)
             ELSE /\ stats.addedChats = 0
                  /\ stats.updatedChats = n
                  /\ {c.id : c \in chats'} = existing
                  /\ nextChatId' = nextChatId
                  /\ RowsKept(existing \ {target})
                  /\ imported' \ imported \subseteq {<<t.path, target>> : t \in {TFam, TChat}}
    ]_vars

\* Two confirms of a bundle of two transcripts have committed: one without
\* a target, which created two chats, and one into a target, which updated
\* that chat twice
C38_Witness ==
  /\ \E r \in ReqIds : reqs[r].pc = "unlink" /\ reqs[r].stats.addedChats = 2
                                            /\ reqs[r].stats.updatedChats = 0
  /\ \E r \in ReqIds : reqs[r].pc = "unlink" /\ reqs[r].stats.addedChats = 0
                                            /\ reqs[r].stats.updatedChats = 2

\* ------------------------------------------------------------------------
\* Owner isolation

\* The ids of the chats that belong to others than u
ForeignIds(u) == {c.id : c \in {x \in chats : x.user_id # u}}

\* The step leaves the chats of everyone but u, and their rows, as they are,
\* and gives them no new chat
ForeignKept(u) ==
  /\ RowsKept(ForeignIds(u))
  /\ {c \in chats' : c.user_id # u} = {c \in chats : c.user_id # u}

=============================================================================
